---- MODULE Spec2Model ----
(***************************************************************************)
(* A model of the sports-prediction backend: the events and predictions    *)
(* tables (migrations 001-003), the two repositories that read and write   *)
(* them, the archival sweep, the list handlers and the batch ingestion.    *)
(*                                                                         *)
(* Instants are whole numbers (days since an epoch); the store's clock is  *)
(* the variable now.  Every SQL statement is one atomic step; a repository *)
(* method that issues two statements is two steps, so that other calls can *)
(* run between them.  updated_at is not modelled.                          *)
(***************************************************************************)
EXTENDS Integers, Sequences, FiniteSets, TLC

\* ------------------------------------------------------------------ bounds
MaxEventId == 3        \* events.id values the SERIAL sequence may hand out
MaxPredictionId == 2   \* predictions.id values the SERIAL sequence may hand out
MaxNow == 4            \* last instant the clock reaches

\* ------------------------------------------------------------- JS / SQL values
\* Absent strings (null, undefined) and absent numbers (null, undefined, NaN,
\* an Invalid Date) are values of their own kind, so that every column keeps
\* one type.
NULL == "<null>"
UNDEFINED == "<undefined>"
NaN == -1
\* new Date(str) of a string that is no date: a Date whose time value is NaN
InvalidDate == -2
Absent(v) == v = NULL \/ v = UNDEFINED
AbsentNum(n) == n = NaN

\* What a call returned: a row, undefined, null, or a thrown error.
Row(r) == [kind |-> "row", row |-> r]
Undefined == [kind |-> "undefined"]
Null == [kind |-> "null"]
Thrown == [kind |-> "error"]
NoArg == [kind |-> "none"]

Callers == {"c1", "c2"}
Clients == Callers \cup {"loader"}

\* ------------------------------------------------------------- identity hash
DigitStr == <<"0", "1", "2", "3", "4", "5", "6", "7", "8", "9">>
DigitValue(ch) == (CHOOSE i \in DOMAIN DigitStr : DigitStr[i] = ch) - 1
TwoDigits(n) == DigitStr[(n \div 10) + 1] \o DigitStr[(n % 10) + 1]

\* Date.prototype.toISOString of the instant d (day d of January 2026, 15:00 UTC)
ToISOString(d) == "2026-01-" \o TwoDigits(d + 1) \o "T15:00:00.000Z"

\* SHA-256 is modelled as collision free: the digest names its input.
Sha256Hex(data) == "sha256:" \o data

generateEventRef(sport, homeTeam, awayTeam, eventDate) ==
    Sha256Hex(sport \o "|" \o homeTeam \o "|" \o awayTeam \o "|" \o ToISOString(eventDate))

\* Attribute values callers hash; names may hold any character, '|' included
RefSports == {"Tennis", "Tennis|Smith"}
RefHomeTeams == {"Jones", "Smith|Jones", "Smith"}
RefAwayTeams == {"Lee", "Jones|Lee"}
RefDates == {0, 1}

\* ------------------------------------------------------------------- schema
Statuses == {"SCHEDULED", "LIVE", "COMPLETED", "POSTPONED", "CANCELLED"}
PredictionTypes == {"WINNER", "SCORE", "OVER_UNDER"}

\* NOT NULL and CHECK constraints of the events table
EventConstraintsOk(rec) ==
    /\ ~Absent(rec.event_ref)
    /\ ~Absent(rec.sport)
    /\ ~Absent(rec.league)
    /\ ~Absent(rec.home_team)
    /\ ~Absent(rec.away_team)
    /\ ~AbsentNum(rec.event_date)
    /\ rec.status \in Statuses

PredictionConstraintsOk_NoRange(rec) ==
    /\ ~AbsentNum(rec.event_id)
    /\ rec.prediction_type \in PredictionTypes
    /\ ~Absent(rec.predicted_value)
    /\ ~AbsentNum(rec.confidence_score)

\* NOT NULL and CHECK constraints of the predictions table
PredictionConstraintsOk(rec) ==
    /\ ~AbsentNum(rec.event_id)
    /\ rec.prediction_type \in PredictionTypes
    /\ ~Absent(rec.predicted_value)
    /\ ~AbsentNum(rec.confidence_score)
    /\ rec.confidence_score >= 0 /\ rec.confidence_score <= 100

VARIABLES
    events,            \* rows of table events
    predictions,       \* rows of table predictions
    nextEventId,       \* next value of events_id_seq
    nextPredictionId,  \* next value of predictions_id_seq
    now,               \* NOW() / Date.now()
    call,              \* the repository call each caller is in, or was last in
    archiveResult,     \* the ArchiveJobResult of the last archival run
    ingest,            \* where DataIngestionService.loadEvents stands
    query,             \* the list requests of one API client, page after page
    http,              \* the request the API routes answer, and their response
    storeUp,           \* whether the database answers queries
    server,            \* the API server process: startup, archive schedule, pool, exit
    script,            \* the loadData script process: its pool and its exit
    migrate            \* the database schema and the run of runMigrations on it

storeVars == <<events, predictions, nextEventId, nextPredictionId, now>>
vars == <<events, predictions, nextEventId, nextPredictionId, now, call, archiveResult, ingest, query, http,
          storeUp, server, script, migrate>>

\* ------------------------------------------------------------------- inputs
Fixture1 ==
    [sport |-> "Football", league |-> "EPL", home_team |-> "Arsenal",
     away_team |-> "Chelsea", event_date |-> 1, venue |-> "Emirates",
     status |-> "SCHEDULED"]
Fixture2 ==
    [sport |-> "Football", league |-> "EPL", home_team |-> "Chelsea",
     away_team |-> "Spurs", event_date |-> 1, venue |-> NULL,
     status |-> "SCHEDULED"]
Fixture3 ==
    [sport |-> "Basketball", league |-> "NBA", home_team |-> "Lakers",
     away_team |-> "Celtics", event_date |-> 3, venue |-> NULL,
     status |-> "COMPLETED"]

WithRef(f, ref) ==
    [event_ref |-> ref, sport |-> f.sport, league |-> f.league,
     home_team |-> f.home_team, away_team |-> f.away_team,
     event_date |-> f.event_date, venue |-> f.venue, status |-> f.status]

Hashed(f) == WithRef(f, generateEventRef(f.sport, f.home_team, f.away_team, f.event_date))

\* Records handed to EventRepository.create by direct callers: the reference is
\* computed with generateEventRef, as the tests do; one record breaks check_status.
EventInputs ==
    {Hashed(Fixture1), Hashed(Fixture2), Hashed(Fixture3),
     Hashed([Fixture3 EXCEPT !.status = "FINISHED"])}

Prediction(eventId, type, value, confidence) ==
    [event_id |-> eventId, prediction_type |-> type, predicted_value |-> value,
     confidence_score |-> confidence, reasoning |-> "form", model_version |-> "v1.0.0"]

\* Records handed to PredictionRepository.create; one breaks check_confidence_score.
PredictionInputs ==
    {Prediction(1, "WINNER", "home", 80), Prediction(1, "SCORE", "2-1", 40),
     Prediction(2, "WINNER", "away", 80), Prediction(2, "WINNER", "home", 150)}

\* A caller's call: the method (op), where it stands (pc: "idle" before any
\* call, "select" between create's two statements, "done" once it returned or
\* raised), its argument and what it returned.
IdleCall == [op |-> "none", pc |-> "idle", arg |-> NoArg, result |-> Null]
Call(op, pc, arg, result) == [op |-> op, pc |-> pc, arg |-> arg, result |-> result]
Finished(c, op) == call[c].op = op /\ call[c].pc = "done"

\* DataIngestionService at work: the method called (loadEvents alone, or
\* loadData), the parsed events file, the index of the record the for-loop is
\* at, createdEvents, the parsed predictions file and predictionIds; and, for
\* the record, how many rows the INSERTs of this run stored.
IdleIngest ==
    [op |-> "none", pc |-> "idle", file |-> <<>>, index |-> 1, createdEvents |-> <<>>,
     predictionsFile |-> <<>>, predictionIds |-> <<>>,
     insertedEvents |-> 0, insertedPredictions |-> 0, rerun |-> "none"]

\* The list requests of a client that pages through one listing: which list,
\* the filters and limit it keeps sending, the page it is at, the count the
\* repository read for it, the responses so far, and whether the store was
\* left alone since the first request.
IdleQuery ==
    [pc |-> "idle", list |-> "none", filters |-> NoArg, limit |-> 1, page |-> 1,
     total |-> 0, responses |-> <<>>, steady |-> TRUE]

\* The API at rest, and later the last request with the response it got; pc
\* is "findAll" while a list route waits for the repository.
IdleHttp ==
    [pc |-> "idle", route |-> "none", request |-> NoArg, passed |-> NoArg,
     status |-> 0, body |-> Null]

\* The server process once server.ts is loaded: the pool is constructed,
\* startServer is about to run, nothing is scheduled or logged, no exit yet.
IdleServer ==
    [pc |-> "starting", pool |-> "open", scheduled |-> FALSE, lastRun |-> "none",
     log |-> {}, exit |-> "none"]

\* The loadData script process before main() runs.
IdleScript == [pc |-> "idle", pool |-> "open", result |-> "none", exit |-> "none"]

\* ---------------------------------------------------------------- migrations
\* The database schema: tables, their columns, indexes with the column they
\* are on, functions and triggers.
FreshDatabase ==
    [tables |-> {}, columns |-> {}, indexes |-> {}, functions |-> {}, triggers |-> {}]

CreateTable(table, columns) == [op |-> "createTable", table |-> table, columns |-> columns]
CreateIndex(name, table, column) ==
    [op |-> "createIndex", name |-> name, table |-> table, column |-> column]
AddColumn(table, column) == [op |-> "addColumn", table |-> table, column |-> column]
DropColumn(table, column) == [op |-> "dropColumn", table |-> table, column |-> column]
CreateFunction(name) == [op |-> "createFunction", name |-> name]
DropTrigger(name, table) == [op |-> "dropTrigger", name |-> name, table |-> table]
CreateTrigger(name, table, function) ==
    [op |-> "createTrigger", name |-> name, table |-> table, function |-> function]

\* The migration files. Array.prototype.sort orders the names by their
\* characters; the names differ within the three digits they start with, which
\* is the part kept here.
Migration001 ==
    [name |-> <<"0", "0", "1">>,
     statements |->
       <<CreateTable("events",
                     {"id", "event_ref", "sport", "league", "home_team", "away_team",
                      "event_date", "venue", "status", "created_at", "updated_at"}),
         CreateTable("predictions",
                     {"id", "event_id", "prediction_type", "predicted_value",
                      "confidence_score", "reasoning", "model_version", "created_at",
                      "updated_at", "is_archived"}),
         CreateIndex("idx_events_event_ref", "events", "event_ref"),
         CreateIndex("idx_events_sport", "events", "sport"),
         CreateIndex("idx_events_league", "events", "league"),
         CreateIndex("idx_events_date", "events", "event_date"),
         CreateIndex("idx_events_status", "events", "status"),
         CreateIndex("idx_events_home_team", "events", "home_team"),
         CreateIndex("idx_events_away_team", "events", "away_team"),
         CreateIndex("idx_predictions_event_id", "predictions", "event_id"),
         CreateIndex("idx_predictions_type", "predictions", "prediction_type"),
         CreateIndex("idx_predictions_confidence", "predictions", "confidence_score"),
         CreateIndex("idx_predictions_archived", "predictions", "is_archived"),
         CreateIndex("idx_predictions_created_at", "predictions", "created_at"),
         CreateFunction("update_updated_at_column"),
         DropTrigger("update_events_updated_at", "events"),
         CreateTrigger("update_events_updated_at", "events", "update_updated_at_column"),
         DropTrigger("update_predictions_updated_at", "predictions"),
         CreateTrigger("update_predictions_updated_at", "predictions",
                       "update_updated_at_column")>>]
Migration002 ==
    [name |-> <<"0", "0", "2">>,
     statements |->
       <<CreateIndex("idx_predictions_event_id_unique", "predictions", "event_id")>>]
Migration003 ==
    [name |-> <<"0", "0", "3">>,
     statements |->
       <<AddColumn("events", "is_archived"),
         CreateIndex("idx_events_is_archived", "events", "is_archived"),
         DropColumn("predictions", "is_archived")>>]
Migrations == {Migration001, Migration002, Migration003}

\* One statement against the schema: the schema it leaves, or an error.
\* IF NOT EXISTS / IF EXISTS turn the statement into a no-op when the object
\* is (not) there, before anything else about it is looked at; dropping a
\* column drops the indexes on it.
Execute(stmt, db) ==
    LET ok(next) == [ok |-> TRUE, db |-> next]
        error == [ok |-> FALSE, db |-> db]
        hasColumn(t, c) == <<t, c>> \in db.columns
    IN CASE stmt.op = "createTable" ->
              IF stmt.table \in db.tables THEN ok(db)
              ELSE ok([db EXCEPT !.tables = @ \cup {stmt.table},
                                 !.columns = @ \cup {<<stmt.table, c>> : c \in stmt.columns}])
         [] stmt.op = "createIndex" ->
              IF \E i \in db.indexes : i.name = stmt.name THEN ok(db)
              ELSE IF ~hasColumn(stmt.table, stmt.column) THEN error
              ELSE ok([db EXCEPT !.indexes = @ \cup {[name |-> stmt.name,
                                                     table |-> stmt.table,
                                                     column |-> stmt.column]}])
         [] stmt.op = "addColumn" ->
              IF stmt.table \notin db.tables THEN error
              ELSE ok([db EXCEPT !.columns = @ \cup {<<stmt.table, stmt.column>>}])
         [] stmt.op = "dropColumn" ->
              IF stmt.table \notin db.tables THEN error
              ELSE ok([db EXCEPT
                         !.columns = @ \ {<<stmt.table, stmt.column>>},
                         !.indexes = {i \in @ : ~(i.table = stmt.table
                                                  /\ i.column = stmt.column)}])
         [] stmt.op = "createFunction" ->
              ok([db EXCEPT !.functions = @ \cup {stmt.name}])
         [] stmt.op = "dropTrigger" ->
              IF stmt.table \notin db.tables THEN error
              ELSE ok([db EXCEPT !.triggers = @ \ {<<stmt.name, stmt.table>>}])
         [] stmt.op = "createTrigger" ->
              IF \/ stmt.table \notin db.tables
                 \/ stmt.function \notin db.functions
                 \/ <<stmt.name, stmt.table>> \in db.triggers
              THEN error
              ELSE ok([db EXCEPT !.triggers = @ \cup {<<stmt.name, stmt.table>>}])

\* Comparison of two names, character by character
RECURSIVE NameBefore(_, _)
NameBefore(a, b) ==
    IF a = <<>> THEN b # <<>>
    ELSE IF b = <<>> THEN FALSE
    ELSE IF Head(a) = Head(b) THEN NameBefore(Tail(a), Tail(b))
    ELSE DigitValue(Head(a)) < DigitValue(Head(b))

\* migrationFiles.sort()
RECURSIVE SortFiles(_)
SortFiles(files) ==
    IF files = {} THEN <<>>
    ELSE LET first == CHOOSE f \in files :
                          \A g \in files \ {f} : NameBefore(f.name, g.name)
         IN <<first>> \o SortFiles(files \ {first})

\* All statements of the given files, file after file, on a schema they suit
RECURSIVE ExecuteAll(_, _)
ExecuteAll(stmts, db) ==
    IF stmts = <<>> THEN db ELSE ExecuteAll(Tail(stmts), Execute(Head(stmts), db).db)
RECURSIVE Migrated(_, _)
Migrated(files, db) ==
    IF files = <<>> THEN db
    ELSE Migrated(Tail(files), ExecuteAll(Head(files).statements, db))

\* The migration runner at rest on the database the repositories work with:
\* the migrations directory and the files of the last run, the file and the
\* statement the run is at, the schema, the schema at the start of the file
\* (a file is one query, so one implicit transaction), the files that
\* completed on this database, and whether the run began with every file of
\* the directory already applied.
MigratedDatabase == Migrated(SortFiles(Migrations), FreshDatabase)
IdleMigrate ==
    [pc |-> "idle", dir |-> Migrations, files |-> <<>>, file |-> 1, stmt |-> 1,
     db |-> MigratedDatabase, begin |-> MigratedDatabase,
     applied |-> {f.name : f \in Migrations}, rerun |-> FALSE]

Init ==
    /\ events = {}
    /\ predictions = {}
    /\ nextEventId = 1
    /\ nextPredictionId = 1
    /\ now = 0
    /\ call = [c \in Clients |-> IdleCall]
    /\ archiveResult = Null
    /\ ingest = IdleIngest
    /\ query = IdleQuery
    /\ http = IdleHttp
    /\ storeUp = TRUE
    /\ server = IdleServer
    /\ script = IdleScript
    /\ migrate = IdleMigrate

\* ------------------------------------------------ EventRepository.create
\* The row INSERT ... RETURNING * stores: id from the sequence, the column
\* defaults for is_archived and created_at.
NewEventRow(rec) ==
    [id |-> nextEventId, event_ref |-> rec.event_ref, sport |-> rec.sport,
     league |-> rec.league, home_team |-> rec.home_team,
     away_team |-> rec.away_team, event_date |-> rec.event_date,
     venue |-> rec.venue, status |-> rec.status,
     is_archived |-> FALSE, created_at |-> now]

EventsByRef(ref) == {e \in events : e.event_ref = ref}

\* The arbiter of ON CONFLICT (event_ref): the rows the UNIQUE constraint on
\* events.event_ref sets against the new one.
ConflictingEvents_None(rec) == {}
ConflictingEvents(rec) == EventsByRef(rec.event_ref)

\* rows[0] of a result set: the row, or undefined when the set is empty
FirstRow(rows) == IF rows = {} THEN Undefined ELSE Row(CHOOSE r \in rows : TRUE)

\* INSERT INTO events ... ON CONFLICT (event_ref) DO NOTHING RETURNING *
EventCreateInsert(c, rec) ==
    /\ call[c].pc \in {"idle", "done"}
    /\ IF ~EventConstraintsOk(rec)
       THEN \* the statement raises; create logs and rethrows
            /\ call' = [call EXCEPT ![c] = Call("createEvent", "done", rec, Thrown)]
            /\ UNCHANGED <<events, nextEventId>>
       ELSE IF ConflictingEvents(rec) # {}
       THEN \* conflict: no row returned, create goes on to read the existing row
            /\ call' = [call EXCEPT ![c] = Call("createEvent", "select", rec, Null)]
            /\ UNCHANGED <<events, nextEventId>>
       ELSE /\ nextEventId <= MaxEventId
            /\ events' = events \cup {NewEventRow(rec)}
            /\ nextEventId' = nextEventId + 1
            /\ call' = [call EXCEPT ![c] =
                           Call("createEvent", "done", rec, Row(NewEventRow(rec)))]
    /\ UNCHANGED <<predictions, nextPredictionId, now, archiveResult>>

\* SELECT * FROM events WHERE event_ref = $1; return existingResult.rows[0]
EventCreateSelect(c) ==
    /\ call[c].op = "createEvent" /\ call[c].pc = "select"
    /\ call' = [call EXCEPT ![c] =
                   Call("createEvent", "done", call[c].arg,
                        FirstRow(EventsByRef(call[c].arg.event_ref)))]
    /\ UNCHANGED <<storeVars, archiveResult>>

\* ------------------------------------------- PredictionRepository.create
NewPredictionRow(rec) ==
    [id |-> nextPredictionId, event_id |-> rec.event_id,
     prediction_type |-> rec.prediction_type,
     predicted_value |-> rec.predicted_value,
     confidence_score |-> rec.confidence_score, reasoning |-> rec.reasoning,
     model_version |-> rec.model_version, created_at |-> now]

PredictionsOf(eventId) == {p \in predictions : p.event_id = eventId}

\* The arbiter of ON CONFLICT (event_id): idx_predictions_event_id_unique
ConflictingPredictions_None(rec) == {}
ConflictingPredictions(rec) == PredictionsOf(rec.event_id)

\* REFERENCES events(id)
ForeignKeyOk(rec) == \E e \in events : e.id = rec.event_id

\* INSERT INTO predictions ... ON CONFLICT (event_id) DO NOTHING RETURNING *
PredictionCreateInsert(c, rec) ==
    /\ call[c].pc \in {"idle", "done"}
    /\ IF ~PredictionConstraintsOk(rec)
       THEN /\ call' = [call EXCEPT ![c] = Call("createPrediction", "done", rec, Thrown)]
            /\ UNCHANGED <<predictions, nextPredictionId>>
       ELSE IF ConflictingPredictions(rec) # {}
       THEN /\ call' = [call EXCEPT ![c] = Call("createPrediction", "select", rec, Null)]
            /\ UNCHANGED <<predictions, nextPredictionId>>
       ELSE IF ~ForeignKeyOk(rec)
       THEN /\ call' = [call EXCEPT ![c] = Call("createPrediction", "done", rec, Thrown)]
            /\ UNCHANGED <<predictions, nextPredictionId>>
       ELSE /\ nextPredictionId <= MaxPredictionId
            /\ predictions' = predictions \cup {NewPredictionRow(rec)}
            /\ nextPredictionId' = nextPredictionId + 1
            /\ call' = [call EXCEPT ![c] =
                           Call("createPrediction", "done", rec, Row(NewPredictionRow(rec)))]
    /\ UNCHANGED <<events, nextEventId, now, archiveResult>>

\* ORDER BY created_at DESC LIMIT 1 over rows: the latest row; among rows of
\* equal created_at the store may return any.
LatestRows(rows) == {r \in rows : \A o \in rows : o.created_at <= r.created_at}

\* SELECT * FROM predictions WHERE event_id = $1 ORDER BY created_at DESC LIMIT 1
PredictionCreateSelect(c) ==
    /\ call[c].op = "createPrediction" /\ call[c].pc = "select"
    /\ LET found == LatestRows(PredictionsOf(call[c].arg.event_id))
       IN \E res \in (IF found = {} THEN {Undefined} ELSE {Row(r) : r \in found}) :
            call' = [call EXCEPT ![c] = Call("createPrediction", "done", call[c].arg, res)]
    /\ UNCHANGED <<storeVars, archiveResult>>

\* ------------------------------------------------------- partial updates
\* A Partial<Event> or Partial<Prediction>: a record whose fields, but for the
\* tag, are the keys the caller supplied.
Keys(partial) == DOMAIN partial \ {"kind"}
NumberKeys == {"id", "event_id", "event_date", "confidence_score", "created_at"}
BooleanKeys == {"is_archived"}
IsUndefined(partial, k) ==
    IF k \in NumberKeys THEN partial[k] = NaN
    ELSE IF k \in BooleanKeys THEN FALSE
    ELSE partial[k] = UNDEFINED

\* The keys that reach the SET clause: value !== undefined and the key none of
\* id, created_at, updated_at.
SetFields(partial) ==
    {k \in Keys(partial) :
        ~IsUndefined(partial, k) /\ k \notin {"id", "created_at", "updated_at"}}

\* SET k = partial.k for the fields, applied to one row
Assign(row, partial, fields) ==
    [k \in DOMAIN row |-> IF k \in fields THEN partial[k] ELSE row[k]]

\* update() with no field to set returns before any statement is issued.
NoFieldsResult_CurrentRow(rows) == FirstRow(rows)
NoFieldsResult(rows) == Null

\* EventRepository.update: UPDATE events SET ... WHERE id = $n RETURNING *
EventUpdate(c, id, partial) ==
    /\ call[c].pc \in {"idle", "done"}
    /\ LET fields == SetFields(partial)
           arg == [id |-> id, partial |-> partial]
           hit == {e \in events : e.id = id}
           new == {Assign(e, partial, fields) : e \in hit}
           ok == /\ fields \subseteq {"event_ref", "sport", "league", "home_team",
                                       "away_team", "event_date", "venue", "status",
                                       "is_archived"}
                 /\ \A n \in new :
                       /\ EventConstraintsOk(n)
                       /\ \A o \in events \ hit : o.event_ref # n.event_ref
       IN IF fields = {}
          THEN /\ call' = [call EXCEPT ![c] =
                              Call("updateEvent", "done", arg, NoFieldsResult(hit))]
               /\ UNCHANGED events
          ELSE IF ~ok
          THEN /\ call' = [call EXCEPT ![c] = Call("updateEvent", "done", arg, Thrown)]
               /\ UNCHANGED events
          ELSE /\ events' = (events \ hit) \cup new
               /\ call' = [call EXCEPT ![c] =
                              Call("updateEvent", "done", arg,
                                   IF new = {} THEN Null ELSE FirstRow(new))]
    /\ UNCHANGED <<predictions, nextEventId, nextPredictionId, now, archiveResult>>

\* PredictionRepository.update: UPDATE predictions SET ... WHERE id = $n RETURNING *
PredictionUpdate(c, id, partial) ==
    /\ call[c].pc \in {"idle", "done"}
    /\ LET fields == SetFields(partial)
           arg == [id |-> id, partial |-> partial]
           hit == {q \in predictions : q.id = id}
           new == {Assign(q, partial, fields) : q \in hit}
           ok == /\ fields \subseteq {"event_id", "prediction_type", "predicted_value",
                                       "confidence_score", "reasoning", "model_version"}
                 /\ \A n \in new :
                       /\ PredictionConstraintsOk(n)
                       /\ ForeignKeyOk(n)
                       /\ \A o \in predictions \ hit : o.event_id # n.event_id
       IN IF fields = {}
          THEN /\ call' = [call EXCEPT ![c] =
                              Call("updatePrediction", "done", arg, NoFieldsResult(hit))]
               /\ UNCHANGED predictions
          ELSE IF ~ok
          THEN /\ call' = [call EXCEPT ![c] = Call("updatePrediction", "done", arg, Thrown)]
               /\ UNCHANGED predictions
          ELSE /\ predictions' = (predictions \ hit) \cup new
               /\ call' = [call EXCEPT ![c] =
                              Call("updatePrediction", "done", arg,
                                   IF new = {} THEN Null ELSE FirstRow(new))]
    /\ UNCHANGED <<events, nextEventId, nextPredictionId, now, archiveResult>>

\* ------------------------------------------------- EventRepository.delete
Bool(b) == [kind |-> "boolean", value |-> b]

\* DELETE FROM events WHERE id = $1; predictions.event_id is ON DELETE CASCADE
PredictionsAfterDelete_NoCascade(id) == predictions
PredictionsAfterDelete(id) == {q \in predictions : q.event_id # id}

EventDelete(c, id) ==
    /\ call[c].pc \in {"idle", "done"}
    /\ events' = {e \in events : e.id # id}
    /\ predictions' = PredictionsAfterDelete(id)
    /\ call' = [call EXCEPT ![c] =
                   Call("deleteEvent", "done", [id |-> id],
                        Bool(\E e \in events : e.id = id))]
    /\ UNCHANGED <<nextEventId, nextPredictionId, now, archiveResult>>

\* PredictionRepository.delete: DELETE FROM predictions WHERE id = $1
PredictionDelete(c, id) ==
    /\ call[c].pc \in {"idle", "done"}
    /\ predictions' = {q \in predictions : q.id # id}
    /\ call' = [call EXCEPT ![c] =
                   Call("deletePrediction", "done", [id |-> id],
                        Bool(\E q \in predictions : q.id = id))]
    /\ UNCHANGED <<events, nextEventId, nextPredictionId, now, archiveResult>>

\* ------------------------------------------------------- archival sweep
\* WHERE is_archived = false AND event_date < NOW() - INTERVAL 'n days'
Stale_Inclusive(e, retentionDays) ==
    ~e.is_archived /\ e.event_date <= now - retentionDays
Stale_NoArchivedTest(e, retentionDays) ==
    e.event_date < now - retentionDays
Stale(e, retentionDays) ==
    ~e.is_archived /\ e.event_date < now - retentionDays

\* ArchiveService.archiveOldPredictions over EventRepository.archiveOldEvents:
\* UPDATE events SET is_archived = true WHERE ...; the result carries rowCount.
ArchiveOldEvents(retentionDays) ==
    /\ LET swept == {e \in events : Stale(e, retentionDays)}
       IN /\ events' = (events \ swept) \cup {[e EXCEPT !.is_archived = TRUE] : e \in swept}
          /\ archiveResult' = [archivedCount |-> Cardinality(swept),
                               retentionDays |-> retentionDays,
                               archivedBefore |-> now - retentionDays]
    /\ UNCHANGED <<predictions, nextEventId, nextPredictionId, now, call>>

\* Time passes.
Tick ==
    /\ now < MaxNow
    /\ now' = now + 1
    /\ UNCHANGED <<events, predictions, nextEventId, nextPredictionId, call, archiveResult>>

\* if (x): a string that is neither undefined nor empty
Truthy(str) == str # UNDEFINED /\ str # ""

\* ------------------------------------- DataIngestionService.loadEvents
\* a ?? b ?? ... over the listed values: the first that is not undefined
RECURSIVE Coalesce(_)
Coalesce(vals) ==
    IF vals = <<>> THEN UNDEFINED
    ELSE IF Head(vals) # UNDEFINED THEN Head(vals)
    ELSE Coalesce(Tail(vals))

\* eventData.k, undefined when the JSON object has no such key
Field(eventData, k) == IF k \in DOMAIN eventData THEN eventData[k] ELSE UNDEFINED

\* String.prototype.toLowerCase / toUpperCase on the strings the files carry
ToLowerCase(str) ==
    CASE str = "Home" -> "home"
      [] str = "Away" -> "away"
      [] str = "Upcoming" -> "upcoming"
      [] OTHER -> str
ToUpperCase(str) ==
    CASE str = "completed" -> "COMPLETED"
      [] str = "finished" -> "FINISHED"
      [] str = "upcoming" -> "UPCOMING"
      [] OTHER -> str

\* event_name.split(' vs ')
SplitVs(str) ==
    CASE str = "Lakers vs Celtics" -> <<"Lakers", "Celtics">>
      [] str = "Arsenal vs Chelsea" -> <<"Arsenal", "Chelsea">>
      [] OTHER -> <<str>>
At(seq, i) == IF i \in DOMAIN seq THEN seq[i] ELSE UNDEFINED

\* new Date(dateStr).getTime(): the day whose ISO string dateStr is, or NaN
ParseDate(dateStr) ==
    IF \E d \in 0..MaxNow : ToISOString(d) = dateStr
    THEN CHOOSE d \in 0..MaxNow : ToISOString(d) = dateStr
    ELSE NaN

\* participants?.find(p => (p.role || '').toLowerCase() === role)?.name
FindByRole(eventData, role) ==
    LET ps == Field(eventData, "participants")
    IN IF ps = UNDEFINED THEN UNDEFINED
       ELSE LET hits == {i \in DOMAIN ps : ToLowerCase(ps[i].role) = role}
            IN IF hits = {} THEN UNDEFINED
               ELSE ps[CHOOSE i \in hits : \A j \in hits : i <= j].name
\* participants?.[i]?.name
ParticipantName(eventData, i) ==
    LET ps == Field(eventData, "participants")
    IN IF ps = UNDEFINED \/ i \notin DOMAIN ps THEN UNDEFINED ELSE ps[i].name
\* event_name?.split(' vs ')[i]
NamePart(eventData, i) ==
    LET name == Field(eventData, "event_name")
    IN IF name = UNDEFINED THEN UNDEFINED ELSE At(SplitVs(name), i)

EventDate(eventData) ==
    ParseDate(Coalesce(<<Field(eventData, "scheduled_at"), Field(eventData, "event_date"), "">>))

StatusOf(eventData) ==
    LET status == Field(eventData, "status")
        event_status == Field(eventData, "event_status")
    IN IF status # UNDEFINED THEN status
       ELSE IF event_status # UNDEFINED /\ event_status # ""
       THEN IF ToLowerCase(event_status) = "upcoming" THEN "SCHEDULED"
            ELSE ToUpperCase(event_status)
       ELSE "SCHEDULED"

\* event_ref: eventData.event_ref (the generateEventRef call is commented out)
EventRefOf(eventData, sport, homeTeam, awayTeam, eventDate) ==
    Field(eventData, "event_ref")

\* The record loadEvents hands to eventRepository.create for one file record
NormalizedEvent(eventData) ==
    LET homeTeam == Coalesce(<<Field(eventData, "home_team"),
                               FindByRole(eventData, "home"),
                               ParticipantName(eventData, 1),
                               NamePart(eventData, 1), "unknown">>)
        awayTeam == Coalesce(<<Field(eventData, "away_team"),
                               FindByRole(eventData, "away"),
                               ParticipantName(eventData, 2),
                               NamePart(eventData, 2), "unknown">>)
        sport == Coalesce(<<Field(eventData, "sport_type"), "unknown">>)
        league == Coalesce(<<Field(eventData, "league"), Field(eventData, "location"),
                             Field(eventData, "event_name"), "">>)
        venue == Coalesce(<<Field(eventData, "venue"), Field(eventData, "location")>>)
    IN [event_ref |-> EventRefOf(eventData, sport, homeTeam, awayTeam, EventDate(eventData)),
        sport |-> sport,
        league |-> IF league = "" THEN "NA" ELSE league,
        home_team |-> homeTeam,
        away_team |-> awayTeam,
        event_date |-> EventDate(eventData),
        venue |-> IF venue = UNDEFINED THEN NULL ELSE venue,
        status |-> StatusOf(eventData)]

\* loadEvents(filePath): the file is read and parsed
LoadEventsStart(file) ==
    /\ ingest.pc \in {"idle", "done", "failed"}
    /\ ingest' = [IdleIngest EXCEPT !.op = "loadEvents", !.pc = "events", !.file = file]
    /\ UNCHANGED <<storeVars, call, archiveResult, query, http, storeUp, server, script, migrate>>

\* isNaN(eventDate.getTime()): warn and continue
LoadEventsSkip ==
    /\ ingest.pc = "events" /\ ingest.index <= Len(ingest.file)
    /\ EventDate(ingest.file[ingest.index]) = NaN
    /\ ingest' = [ingest EXCEPT !.index = @ + 1]
    /\ UNCHANGED <<storeVars, call, archiveResult, query, http, storeUp, server, script, migrate>>

\* What follows eventRepository.create: still between its two statements; or
\* it raised, or returned undefined and event.id raises, and the catch block
\* rethrows; or createdEvents.push(event) and the next record.
AfterCreate(created) ==
    IF created.pc = "select" THEN [ingest EXCEPT !.pc = "await"]
    ELSE IF created.result.kind # "row" THEN [ingest EXCEPT !.pc = "failed"]
    ELSE [ingest EXCEPT !.pc = "events", !.index = @ + 1,
                        !.createdEvents = Append(@, created.result.row),
                        !.insertedEvents = IF ingest.pc = "events" THEN @ + 1 ELSE @]

\* await eventRepository.create({...}): the INSERT
LoadEventsCreate ==
    /\ ingest.pc = "events" /\ ingest.index <= Len(ingest.file)
    /\ EventDate(ingest.file[ingest.index]) # NaN
    /\ EventCreateInsert("loader", NormalizedEvent(ingest.file[ingest.index]))
    /\ ingest' = AfterCreate(call'["loader"])
    /\ UNCHANGED <<query, http, storeUp, server, script, migrate>>

\* await eventRepository.create({...}): the SELECT after a conflict
LoadEventsSelect ==
    /\ ingest.pc = "await"
    /\ EventCreateSelect("loader")
    /\ ingest' = AfterCreate(call'["loader"])
    /\ UNCHANGED <<query, http, storeUp, server, script, migrate>>

\* return createdEvents; under loadData, loadPredictions(predictionsPath, events)
\* follows
LoadEventsReturn ==
    /\ ingest.pc = "events" /\ ingest.index > Len(ingest.file)
    /\ ingest' = IF ingest.op = "loadData"
                 THEN [ingest EXCEPT !.pc = "predictions", !.index = 1]
                 ELSE [ingest EXCEPT !.pc = "done"]
    /\ UNCHANGED <<storeVars, call, archiveResult, query, http, storeUp, server, script, migrate>>

\* --------------------------- DataIngestionService.loadPredictions, loadData
\* loadData(eventsPath, predictionsPath): loadEvents first
LoadDataStart(file, predictionsFile) ==
    /\ ingest.pc \in {"idle", "done", "failed"}
    /\ ingest' = [IdleIngest EXCEPT !.op = "loadData", !.pc = "events", !.file = file,
                                    !.predictionsFile = predictionsFile]
    /\ UNCHANGED <<storeVars, call, archiveResult, query, http, storeUp, server, script, migrate>>

\* The operator runs loadData once more on the files of the run that just
\* ended; rerun keeps how that first run ended
LoadDataAgain ==
    /\ ingest.op = "loadData" /\ ingest.pc \in {"done", "failed"}
    /\ ingest.rerun = "none"
    /\ ingest' = [IdleIngest EXCEPT !.op = "loadData", !.pc = "events",
                                    !.file = ingest.file,
                                    !.predictionsFile = ingest.predictionsFile,
                                    !.rerun = ingest.pc]
    /\ UNCHANGED <<storeVars, call, archiveResult, query, http, storeUp, server, script, migrate>>

\* The event a prediction record names: by event_ref among the events handed
\* over, else by event_index into them (0-based; an index below 0 reads
\* undefined and .id raises), else none
ResolveEvent(predData, created) ==
    IF Truthy(Field(predData, "event_ref"))
    THEN LET hits == {i \in DOMAIN created : created[i].event_ref = predData.event_ref}
         IN IF hits = {} THEN [kind |-> "skip"]
            ELSE [kind |-> "id",
                  id |-> created[CHOOSE i \in hits : \A j \in hits : i <= j].id]
    ELSE IF "event_index" \in DOMAIN predData
    THEN IF predData.event_index >= Len(created) THEN [kind |-> "skip"]
         ELSE IF predData.event_index < 0 THEN [kind |-> "throw"]
         ELSE [kind |-> "id", id |-> created[predData.event_index + 1].id]
    ELSE [kind |-> "skip"]

\* The record loadPredictions hands to predictionRepository.create
NormalizedPrediction(predData, eventId) ==
    [event_id |-> eventId,
     prediction_type |-> Coalesce(<<Field(predData, "prediction_type"), "WINNER">>),
     predicted_value |-> Coalesce(<<Field(predData, "predicted_value"),
                                    Field(predData, "predicted_outcome"), "">>),
     confidence_score |-> IF "confidence_score" \in DOMAIN predData
                          THEN predData.confidence_score ELSE 0,
     reasoning |-> Coalesce(<<Field(predData, "reasoning"), "{}">>),
     model_version |-> Coalesce(<<Field(predData, "model_version"), "ingest-1">>)]

\* warn and continue: the record names no event that can be found
LoadPredictionsSkip ==
    /\ ingest.pc = "predictions" /\ ingest.index <= Len(ingest.predictionsFile)
    /\ ResolveEvent(ingest.predictionsFile[ingest.index], ingest.createdEvents).kind = "skip"
    /\ ingest' = [ingest EXCEPT !.index = @ + 1]
    /\ UNCHANGED <<storeVars, call, archiveResult, query, http, storeUp, server, script, migrate>>

\* events[predData.event_index].id raises; the catch blocks rethrow
LoadPredictionsThrow ==
    /\ ingest.pc = "predictions" /\ ingest.index <= Len(ingest.predictionsFile)
    /\ ResolveEvent(ingest.predictionsFile[ingest.index], ingest.createdEvents).kind = "throw"
    /\ ingest' = [ingest EXCEPT !.pc = "failed"]
    /\ UNCHANGED <<storeVars, call, archiveResult, query, http, storeUp, server, script, migrate>>

\* What follows predictionRepository.create
AfterPredictionCreate(created) ==
    IF created.pc = "select" THEN [ingest EXCEPT !.pc = "awaitPrediction"]
    ELSE IF created.result.kind # "row" THEN [ingest EXCEPT !.pc = "failed"]
    ELSE [ingest EXCEPT !.pc = "predictions", !.index = @ + 1,
                        !.predictionIds = Append(@, created.result.row.id),
                        !.insertedPredictions =
                            IF ingest.pc = "predictions" THEN @ + 1 ELSE @]

\* await predictionRepository.create({...}): the INSERT
LoadPredictionsCreate ==
    /\ ingest.pc = "predictions" /\ ingest.index <= Len(ingest.predictionsFile)
    /\ LET found == ResolveEvent(ingest.predictionsFile[ingest.index], ingest.createdEvents)
       IN /\ found.kind = "id"
          /\ PredictionCreateInsert("loader",
                 NormalizedPrediction(ingest.predictionsFile[ingest.index], found.id))
    /\ ingest' = AfterPredictionCreate(call'["loader"])
    /\ UNCHANGED <<query, http, storeUp, server, script, migrate>>

\* await predictionRepository.create({...}): the SELECT after a conflict
LoadPredictionsSelect ==
    /\ ingest.pc = "awaitPrediction"
    /\ PredictionCreateSelect("loader")
    /\ ingest' = AfterPredictionCreate(call'["loader"])
    /\ UNCHANGED <<query, http, storeUp, server, script, migrate>>

\* return { events, eventIds, predictionIds }
LoadDataReturn ==
    /\ ingest.pc = "predictions" /\ ingest.index > Len(ingest.predictionsFile)
    /\ ingest' = [ingest EXCEPT !.pc = "done"]
    /\ UNCHANGED <<storeVars, call, archiveResult, query, http, storeUp, server, script, migrate>>

\* Records of an events file
FileRecord1 ==
    [event_ref |-> Hashed(Fixture1).event_ref, sport_type |-> "Football", league |-> "EPL",
     home_team |-> "Arsenal", away_team |-> "Chelsea", event_date |-> ToISOString(1),
     venue |-> "Emirates", status |-> "SCHEDULED"]
FileRecord2 ==
    [event_ref |-> "evt-002", sport_type |-> "Football", league |-> "EPL",
     participants |-> <<[name |-> "Chelsea", role |-> "Home"],
                        [name |-> "Spurs", role |-> "Away"]>>,
     scheduled_at |-> ToISOString(1), event_status |-> "Upcoming"]
FileRecord3 ==
    [sport_type |-> "Basketball", event_name |-> "Lakers vs Celtics",
     event_date |-> ToISOString(3), event_status |-> "completed"]
FileRecord4 ==
    [event_ref |-> "evt-004", sport_type |-> "Football", home_team |-> "Arsenal",
     away_team |-> "Spurs", event_date |-> "next friday"]
EventFiles ==
    {<<FileRecord1, FileRecord4, FileRecord2>>,
     <<FileRecord2, FileRecord1>>,
     <<FileRecord1, FileRecord3, FileRecord2>>}

\* --------------------------------------------------------- list queries

\* AND (e.home_team = $n OR e.away_team = $n)
TeamClause_AwayDiffers(e, team) == e.home_team = team \/ e.away_team # team
TeamClause(e, team) == e.home_team = team \/ e.away_team = team

\* The clauses both findAll methods build from sport, league, team, startDate
\* and endDate
EventClauses(e, filters) ==
    /\ Truthy(filters.sport) => e.sport = filters.sport
    /\ Truthy(filters.league) => e.league = filters.league
    /\ Truthy(filters.team) => TeamClause(e, filters.team)
    /\ filters.startDate # NaN => e.event_date >= filters.startDate
    /\ filters.endDate # NaN => e.event_date <= filters.endDate

\* AND e.event_date >= NOW() / AND e.event_date < NOW()
WhenClause_Strict(e, when) ==
    CASE when = "upcoming" -> e.event_date > now
      [] when = "past" -> e.event_date < now
      [] OTHER -> TRUE
WhenClause(e, when) ==
    CASE when = "upcoming" -> e.event_date >= now
      [] when = "past" -> e.event_date < now
      [] OTHER -> TRUE

\* WHERE 1=1 AND e.is_archived = false ... of EventRepository.findAll
EventWhere(e, filters) ==
    /\ ~e.is_archived
    /\ EventClauses(e, filters)
    /\ Truthy(filters.status) => e.status = filters.status
    /\ WhenClause(e, filters.when)

\* if (!filters.includeArchived) query += ` AND e.is_archived = false`
ExcludeArchived_Never(filters) == FALSE
ExcludeArchived(filters) == ~filters.includeArchived

\* FROM predictions p INNER JOIN events e ON p.event_id = e.id WHERE 1=1 ...
PredictionWhere(p, e, filters) ==
    /\ p.event_id = e.id
    /\ ExcludeArchived(filters) => ~e.is_archived
    /\ EventClauses(e, filters)
    /\ Truthy(filters.predictionType) => p.prediction_type = filters.predictionType
    /\ filters.minConfidence # NaN => p.confidence_score >= filters.minConfidence

MatchingEvents(filters) == {e \in events : EventWhere(e, filters)}
MatchingPredictions(filters) ==
    {p \in predictions : \E e \in events : PredictionWhere(p, e, filters)}
EventOf(p) == CHOOSE e \in events : e.id = p.event_id

\* The row findAll maps to an Event: the columns, the latest prediction of the
\* lateral join (or null) and its predicted_value as winner
Winner_PredictionType(lp) == IF lp = Null THEN NULL ELSE lp.row.prediction_type
\* winner: r.prediction ? r.prediction.predicted_value : null
Winner(lp) == IF lp = Null THEN NULL ELSE lp.row.predicted_value
EventResults(e) ==
    LET latest == LatestRows(PredictionsOf(e.id))
        lps == IF latest = {} THEN {Null} ELSE {Row(p) : p \in latest}
    IN {[id |-> e.id, event_ref |-> e.event_ref, sport |-> e.sport, league |-> e.league,
         home_team |-> e.home_team, away_team |-> e.away_team,
         event_date |-> e.event_date, venue |-> e.venue, status |-> e.status,
         created_at |-> e.created_at, is_archived |-> e.is_archived,
         prediction |-> lp,
         winner |-> Winner(lp)] : lp \in lps}

\* Every order in which the rows can come back
RowOrders(rows) ==
    {seq \in [1..Cardinality(rows) -> rows] :
        \A i, j \in 1..Cardinality(rows) : i # j => seq[i] # seq[j]}

\* ORDER BY e.event_date ASC for upcoming, DESC otherwise: rows of equal
\* event_date come in any order
EventSortsBefore(a, b, when) ==
    IF when = "upcoming" THEN a.event_date < b.event_date
    ELSE a.event_date > b.event_date
EventOrderings(rows, when) ==
    {seq \in RowOrders(rows) :
        \A i, j \in DOMAIN seq : i < j => ~EventSortsBefore(seq[j], seq[i], when)}

\* ORDER BY e.event_date DESC, p.created_at DESC
PredictionSortsBefore(a, b) ==
    \/ EventOf(a).event_date > EventOf(b).event_date
    \/ EventOf(a).event_date = EventOf(b).event_date /\ a.created_at > b.created_at
PredictionOrderings(rows) ==
    {seq \in RowOrders(rows) :
        \A i, j \in DOMAIN seq : i < j => ~PredictionSortsBefore(seq[j], seq[i])}

\* LIMIT limit OFFSET offset
Min(a, b) == IF a < b THEN a ELSE b
Slice(seq, limit, offset) == SubSeq(seq, offset + 1, Min(offset + limit, Len(seq)))
\* Math.ceil(total / limit)
Ceil(total, limit) == (total + limit - 1) \div limit

\* GET /api/events or /api/predictions ?page=1: the first request of a client
\* that will page through the listing
ListRequest(list, filters, limit) ==
    /\ query.pc = "idle"
    /\ query' = [pc |-> "count", list |-> list, filters |-> filters, limit |-> limit,
                 page |-> 1, total |-> 0, responses |-> <<>>, steady |-> TRUE]
    /\ UNCHANGED <<storeVars, call, archiveResult, ingest, http, storeUp, server, script, migrate>>

\* findAll: SELECT COUNT(*) FROM (...) as filtered
FindAllCount ==
    /\ query.pc = "count"
    /\ InvalidDate \notin {query.filters.startDate, query.filters.endDate}
    /\ query' = [query EXCEPT
                   !.pc = "page",
                   !.total = IF query.list = "events"
                             THEN Cardinality(MatchingEvents(query.filters))
                             ELSE Cardinality(MatchingPredictions(query.filters))]
    /\ UNCHANGED <<storeVars, call, archiveResult, ingest, http, storeUp, server, script, migrate>>

\* findAll: the count query is sent with an Invalid Date among its parameters;
\* the server cannot read it as a timestamp, db.query rejects and findAll
\* rethrows.
FindAllThrow ==
    /\ query.pc = "count"
    /\ InvalidDate \in {query.filters.startDate, query.filters.endDate}
    /\ query' = [query EXCEPT !.pc = "failed"]
    /\ UNCHANGED <<storeVars, call, archiveResult, ingest, http, storeUp, server, script, migrate>>

\* findAll: the ORDER BY ... LIMIT ... OFFSET query, and the route's response
Respond(rows) ==
    [query EXCEPT
       !.pc = "responded",
       !.responses = Append(@, [page |-> query.page,
                                limit |-> query.limit,
                                data |-> Slice(rows, query.limit,
                                               (query.page - 1) * query.limit),
                                total |-> query.total,
                                totalPages |-> Ceil(query.total, query.limit)])]

FindAllPage ==
    /\ query.pc = "page"
    /\ IF query.list = "events"
       THEN \E order \in EventOrderings(MatchingEvents(query.filters), query.filters.when) :
              \E rows \in {seq \in [DOMAIN order -> UNION {EventResults(e) : e \in events}] :
                              \A i \in DOMAIN order : seq[i] \in EventResults(order[i])} :
                 query' = Respond(rows)
       ELSE \E order \in PredictionOrderings(MatchingPredictions(query.filters)) :
              query' = Respond(order)
    /\ UNCHANGED <<storeVars, call, archiveResult, ingest, http, storeUp, server, script, migrate>>

\* The client asks for the next page with the same filters and limit
NextPage ==
    /\ query.pc = "responded"
    /\ query.page < query.responses[Len(query.responses)].totalPages
    /\ query' = [query EXCEPT !.pc = "count", !.page = @ + 1]
    /\ UNCHANGED <<storeVars, call, archiveResult, ingest, http, storeUp, server, script, migrate>>

\* A write reached the store while the client was paging
Disturb == query' = [query EXCEPT !.steady = (query.pc = "idle")]

\* Records of a predictions file
PredictionRecord1 ==
    [event_ref |-> Hashed(Fixture1).event_ref, prediction_type |-> "WINNER",
     predicted_value |-> "home", confidence_score |-> 80, reasoning |-> "form",
     model_version |-> "v1.0.0"]
PredictionRecord2 ==
    [event_index |-> 1, predicted_outcome |-> "away", confidence_score |-> 150]
PredictionRecord3 ==
    [event_ref |-> "evt-404", prediction_type |-> "SCORE", predicted_value |-> "2-1",
     confidence_score |-> 40]
PredictionRecord4 == [event_index |-> 5, predicted_value |-> "home", confidence_score |-> 70]
PredictionRecord5 == [event_index |-> -1, predicted_value |-> "home", confidence_score |-> 70]
PredictionRecord6 == [event_index |-> 1, predicted_value |-> "away", confidence_score |-> 60]
PredictionRecord7 == [predicted_value |-> "draw"]
PredictionRecord8 == [event_index |-> 2, predicted_value |-> "draw", confidence_score |-> 55]
PredictionFiles ==
    {<<PredictionRecord8>>,
     <<PredictionRecord3, PredictionRecord1, PredictionRecord6>>,
     <<PredictionRecord1, PredictionRecord2, PredictionRecord6>>,
     <<PredictionRecord4, PredictionRecord7, PredictionRecord5, PredictionRecord1>>}

\* Filters of list requests
NoEventFilters ==
    [sport |-> UNDEFINED, league |-> UNDEFINED, team |-> UNDEFINED, startDate |-> NaN,
     endDate |-> NaN, status |-> UNDEFINED, when |-> "all"]
EventFilterChoices ==
    {NoEventFilters,
     [NoEventFilters EXCEPT !.team = "Chelsea"],
     [NoEventFilters EXCEPT !.sport = "Football", !.status = "SCHEDULED",
                            !.startDate = 1, !.endDate = 2],
     [NoEventFilters EXCEPT !.when = "upcoming"]}
NoPredictionFilters ==
    [sport |-> UNDEFINED, league |-> UNDEFINED, team |-> UNDEFINED, startDate |-> NaN,
     endDate |-> NaN, predictionType |-> UNDEFINED, minConfidence |-> NaN,
     includeArchived |-> FALSE]
PredictionFilterChoices ==
    {NoPredictionFilters,
     [NoPredictionFilters EXCEPT !.includeArchived = TRUE],
     [NoPredictionFilters EXCEPT !.team = "Arsenal", !.predictionType = "WINNER",
                                 !.minConfidence = 50]}
LimitChoices == {1, 2}

\* The records a listing is seeded with, and the retention its archival uses
SeedEvents == {Hashed(Fixture1), Hashed(Fixture2), Hashed(Fixture3)}
SeedPredictions == {Prediction(1, "SCORE", "2-1", 40), Prediction(2, "WINNER", "away", 80)}
SeedRetention == 2

\* Partial records handed to update
Partial == [kind |-> "partial"]
EventPartials ==
    {Partial,
     [kind |-> "partial", status |-> UNDEFINED],
     [kind |-> "partial", id |-> 3, status |-> "LIVE"],
     [kind |-> "partial", event_ref |-> Hashed(Fixture2).event_ref],
     [kind |-> "partial", is_archived |-> FALSE]}
PredictionPartials ==
    {Partial,
     [kind |-> "partial", confidence_score |-> 60],
     [kind |-> "partial", confidence_score |-> 150]}
KeepEvents == {Hashed(Fixture1), Hashed(Fixture3)}
KeepPartials ==
    {[kind |-> "partial", status |-> "LIVE"],
     [kind |-> "partial", is_archived |-> FALSE]}
RetentionChoices == {1, 2}

\* --------------------------------------------------------------- API routes
\* A path segment or a query value is the sequence of its characters.
Digits == {DigitStr[i] : i \in DOMAIN DigitStr}

\* Largest value of the INTEGER (SERIAL) id columns
Int4Max == 2147483647

RECURSIVE SkipWhitespace(_)
SkipWhitespace(s) ==
    IF s # <<>> /\ Head(s) = " " THEN SkipWhitespace(Tail(s)) ELSE s

\* The decimal digits at the front of s, appended to the number acc. A number
\* above Int4Max is kept as Int4Max with exact = FALSE.
RECURSIVE Accumulate(_, _)
Accumulate(s, acc) ==
    IF s = <<>> \/ Head(s) \notin Digits THEN acc
    ELSE LET d == DigitValue(Head(s)) IN
         IF ~acc.exact \/ acc.value > (Int4Max - d) \div 10
         THEN Accumulate(Tail(s), [value |-> Int4Max, exact |-> FALSE])
         ELSE Accumulate(Tail(s), [value |-> acc.value * 10 + d, exact |-> TRUE])

\* parseInt(s, 10): leading whitespace is skipped, a sign is read, then the
\* longest run of digits; what follows is ignored; without a digit the result
\* is NaN. int4 tells whether the magnitude fits an INTEGER column.
ParseInt(s) ==
    LET t == SkipWhitespace(s)
        negative == t # <<>> /\ Head(t) = "-"
        u == IF t # <<>> /\ Head(t) \in {"-", "+"} THEN Tail(t) ELSE t
    IN IF u = <<>> \/ Head(u) \notin Digits
       THEN [nan |-> TRUE, value |-> 0, int4 |-> TRUE]
       ELSE LET n == Accumulate(u, [value |-> 0, exact |-> TRUE])
            IN [nan |-> FALSE, value |-> IF negative THEN 0 - n.value ELSE n.value,
                int4 |-> n.exact]

\* What a route answered: the error handler turns an AppError into its status
\* and any other error into 500.
Answer(route, request, passed, status, body) ==
    [pc |-> "done", route |-> route, request |-> request, passed |-> passed,
     status |-> status, body |-> body]

\* GET /api/predictions/:id
GetPredictionById(id) ==
    /\ http.pc # "findAll"
    /\ LET predictionId == ParseInt(id)
           rows == {p \in predictions : p.id = predictionId.value}
           route == "GET /api/predictions/:id"
           request == [id |-> id]
       IN http' =
            IF predictionId.nan THEN Answer(route, request, NoArg, 400, Null)
            ELSE IF ~predictionId.int4 THEN Answer(route, request, NoArg, 500, Null)
            ELSE IF rows = {} THEN Answer(route, request, NoArg, 404, Null)
            ELSE Answer(route, request, NoArg, 200, FirstRow(rows))
    /\ UNCHANGED <<storeVars, call, archiveResult, ingest, query, storeUp, server, script, migrate>>

\* GET /api/events/:id ?includePredictions
GetEventById(id, includePredictions) ==
    /\ http.pc # "findAll"
    /\ LET eventId == ParseInt(id)
           rows == {e \in events : e.id = eventId.value}
           route == "GET /api/events/:id"
           request == [id |-> id, includePredictions |-> includePredictions]
       IN IF eventId.nan THEN http' = Answer(route, request, NoArg, 400, Null)
          ELSE IF ~eventId.int4 THEN http' = Answer(route, request, NoArg, 500, Null)
          ELSE IF rows = {} THEN http' = Answer(route, request, NoArg, 404, Null)
          ELSE IF includePredictions = "false"
          THEN http' = Answer(route, request, NoArg, 200, FirstRow(rows))
          ELSE \E r \in EventResults(FirstRow(rows).row) :
                 http' = Answer(route, request, NoArg, 200, Row(r))
    /\ UNCHANGED <<storeVars, call, archiveResult, ingest, query, storeUp, server, script, migrate>>

\* Values of a request's query string; a parameter the request does not carry
\* is not in the record's domain.
Param(q, k, default) == IF k \in DOMAIN q THEN q[k] ELSE default
Max(a, b) == IF a > b THEN a ELSE b
\* parseInt(x, 10) || d
OrDefault(n, d) == IF n.nan \/ n.value = 0 THEN d ELSE n.value
\* parseFloat(x) of a value without fraction or exponent
ParseFloat(s) == ParseInt(s)
\* new Date(str)
NewDate(str) == IF ParseDate(str) = NaN THEN InvalidDate ELSE ParseDate(str)

\* pageNum, limitNum and offset of both list routes
PageNum(q) == Max(1, OrDefault(ParseInt(Param(q, "page", <<"1">>)), 1))
LimitNum_Unclamped(q) == Max(1, OrDefault(ParseInt(Param(q, "limit", <<"2", "0">>)), 20))
LimitNum(q) == Min(100, Max(1, OrDefault(ParseInt(Param(q, "limit", <<"2", "0">>)), 20)))
Pagination(q) ==
    [page |-> PageNum(q), limit |-> LimitNum(q), offset |-> (PageNum(q) - 1) * LimitNum(q)]

\* if (x) filters.x = x, for the string filters
StringFilter(q, k) == IF Truthy(Param(q, k, UNDEFINED)) THEN q[k] ELSE UNDEFINED
\* if (startDate) filters.startDate = new Date(startDate)
DateFilter(q, k) == IF Truthy(Param(q, k, UNDEFINED)) THEN NewDate(q[k]) ELSE NaN

\* The request a list route hands to findAll, and findAll's first query
Pending(route, q, filters) ==
    [pc |-> "findAll", route |-> route, request |-> q,
     passed |-> [filters |-> filters, pagination |-> Pagination(q)],
     status |-> 0, body |-> Null]
FindAllCall(list, q, filters) ==
    [pc |-> "count", list |-> list, filters |-> filters, limit |-> LimitNum(q),
     page |-> PageNum(q), total |-> 0, responses |-> <<>>, steady |-> TRUE]

\* GET /api/predictions up to the call of predictionRepository.findAll
InvalidPredictionType_Never(q) == FALSE
InvalidPredictionType(q) ==
    /\ Truthy(Param(q, "predictionType", UNDEFINED))
    /\ q.predictionType \notin PredictionTypes
InvalidMinConfidence(q) ==
    LET minConfidence == Param(q, "minConfidence", <<>>)
        minConf == ParseFloat(minConfidence)
    IN /\ minConfidence # <<>>
       /\ minConf.nan \/ minConf.value < 0 \/ minConf.value > 100
PredictionFilters(q) ==
    [sport |-> StringFilter(q, "sport"), league |-> StringFilter(q, "league"),
     team |-> StringFilter(q, "team"),
     startDate |-> DateFilter(q, "startDate"), endDate |-> DateFilter(q, "endDate"),
     predictionType |-> StringFilter(q, "predictionType"),
     minConfidence |-> IF Param(q, "minConfidence", <<>>) # <<>>
                       THEN ParseFloat(q.minConfidence).value ELSE NaN,
     includeArchived |-> Param(q, "includeArchived", "false") = "true"]
GetPredictions(q) ==
    /\ http.pc # "findAll"
    /\ query.pc = "idle"
    /\ LET route == "GET /api/predictions" IN
       IF InvalidPredictionType(q) \/ InvalidMinConfidence(q)
       THEN /\ http' = Answer(route, q, NoArg, 400, Null)
            /\ UNCHANGED <<query, storeUp, server, script, migrate>>
       ELSE /\ http' = Pending(route, q, PredictionFilters(q))
            /\ query' = FindAllCall("predictions", q, PredictionFilters(q))
    /\ UNCHANGED <<storeVars, call, archiveResult, ingest, storeUp, server, script, migrate>>

\* GET /api/events up to the call of eventService.getEvents
Whens == {"upcoming", "past", "all"}
InvalidWhen_Never(q) == FALSE
InvalidWhen(q) == Param(q, "when", "all") \notin Whens
EventFilters(q) ==
    [sport |-> StringFilter(q, "sport"), league |-> StringFilter(q, "league"),
     team |-> StringFilter(q, "team"),
     startDate |-> DateFilter(q, "startDate"), endDate |-> DateFilter(q, "endDate"),
     status |-> StringFilter(q, "status"), when |-> Param(q, "when", "all")]
GetEvents(q) ==
    /\ http.pc # "findAll"
    /\ query.pc = "idle"
    /\ LET route == "GET /api/events" IN
       IF InvalidWhen(q)
       THEN /\ http' = Answer(route, q, NoArg, 400, Null)
            /\ UNCHANGED <<query, storeUp, server, script, migrate>>
       ELSE /\ http' = Pending(route, q, EventFilters(q))
            /\ query' = FindAllCall("events", q, EventFilters(q))
    /\ UNCHANGED <<storeVars, call, archiveResult, ingest, storeUp, server, script, migrate>>

\* res.json(response) once findAll returned, or the error handler's 500 once
\* it threw
ListAnswer ==
    /\ http.pc = "findAll"
    /\ query.pc \in {"responded", "failed"}
    /\ http' = IF query.pc = "failed"
               THEN Answer(http.route, http.request, http.passed, 500, Null)
               ELSE Answer(http.route, http.request, http.passed, 200,
                           [kind |-> "page", page |-> query.responses[1]])
    /\ query' = IdleQuery
    /\ UNCHANGED <<storeVars, call, archiveResult, ingest, storeUp, server, script, migrate>>

\* Query strings of the list requests
NoParams == <<>>
PaginationQueries ==
    {[page |-> <<"2">>, limit |-> <<"1">>],
     [page |-> <<"0">>, limit |-> <<"0">>],
     [page |-> <<"a", "b", "c">>, limit |-> <<"5", "0", "0">>],
     [page |-> <<"-", "3">>, limit |-> <<"-", "5">>],
     [page |-> <<"2", "x">>, limit |-> <<"1", "0", "1">>],
     [page |-> <<>>, limit |-> <<"1", "0", "0">>]}
PredictionQueries ==
    {NoParams,
     [predictionType |-> "WINNER", minConfidence |-> <<"5", "0">>],
     [predictionType |-> "INVALID"],
     [predictionType |-> ""],
     [minConfidence |-> <<"1", "5", "0">>],
     [minConfidence |-> <<"a", "b", "c">>],
     [minConfidence |-> <<"-", "5">>],
     [minConfidence |-> <<"5", "0", "a", "b", "c">>],
     [minConfidence |-> <<>>],
     [startDate |-> "next friday"],
     [startDate |-> ToISOString(1), endDate |-> ToISOString(2)],
     [includeArchived |-> "true"]} \cup PaginationQueries
EventQueries ==
    {NoParams,
     [when |-> "upcoming"],
     [when |-> "past"],
     [when |-> "all"],
     [when |-> "soon"],
     [when |-> ""],
     [when |-> "upcoming", team |-> "Chelsea"],
     [when |-> "past", team |-> "Chelsea"],
     [when |-> "all", team |-> "Chelsea"],
     [endDate |-> "next friday"],
     [startDate |-> ToISOString(1), endDate |-> ToISOString(2)]} \cup PaginationQueries

\* Path segments of the requests
IdSegments ==
    {<<"1">>, <<"2">>, <<"3">>, <<"0">>, <<"-", "1">>, <<"a", "b", "c">>,
     <<"1", "a", "b", "c">>,
     <<"9", "9", "9", "9", "9", "9">>,
     <<"9", "9", "9", "9", "9", "9", "9", "9", "9", "9", "9">>}

\* ------------------------------------------------- server and archive job
\* The database stops or resumes answering.
StoreFails ==
    /\ storeUp
    /\ storeUp' = FALSE
    /\ UNCHANGED <<storeVars, call, archiveResult, ingest, query, http, server, script, migrate>>
StoreRecovers ==
    /\ ~storeUp
    /\ storeUp' = TRUE
    /\ UNCHANGED <<storeVars, call, archiveResult, ingest, query, http, server, script, migrate>>

\* startServer: the health check, startArchiveJob (cron.schedule throws on a
\* schedule expression it cannot read) and app.listen; the catch block logs
\* and exits with 1.
StartServer(scheduleValid) ==
    /\ server.pc = "starting"
    /\ server' = IF storeUp /\ scheduleValid
                 THEN [server EXCEPT !.pc = "listening", !.scheduled = TRUE,
                                     !.log = @ \cup {"Server started successfully"}]
                 ELSE [server EXCEPT !.pc = "exited", !.exit = "1",
                                     !.log = @ \cup {"Failed to start server"}]
    /\ UNCHANGED <<storeVars, call, archiveResult, ingest, query, http, storeUp, script, migrate>>

\* The cron callback's catch block: the error is logged and not rethrown
AfterFailedRun_Unscheduled(srv) ==
    [srv EXCEPT !.lastRun = "failed", !.scheduled = FALSE,
                !.log = @ \cup {"Archive job failed"}]
AfterFailedRun(srv) ==
    [srv EXCEPT !.lastRun = "failed", !.log = @ \cup {"Archive job failed"}]

\* The schedule fires: archiveOldPredictions(RETENTION_DAYS) inside try/catch
ArchiveJobRun(retentionDays) ==
    /\ server.pc = "listening"
    /\ server.scheduled
    /\ IF storeUp
       THEN /\ ArchiveOldEvents(retentionDays)
            /\ server' = [server EXCEPT
                            !.lastRun = "completed",
                            !.log = @ \cup {"Archive job completed successfully"}]
       ELSE /\ server' = AfterFailedRun(server)
            /\ UNCHANGED <<storeVars, call, archiveResult>>
    /\ UNCHANGED <<ingest, query, http, storeUp, script, migrate>>

\* db.close(): pool.end() resolves, or rejects
Closed(pool, closeOk) == IF closeOk THEN "ended" ELSE "end failed"

\* SIGTERM or SIGINT: gracefulShutdown closes the pool and exits with 0, or
\* with 1 when db.close() rejects
GracefulShutdown(closeOk) ==
    /\ server.pc \in {"starting", "listening"}
    /\ server' = [server EXCEPT
                    !.pc = "exited",
                    !.pool = Closed(@, closeOk),
                    !.exit = IF closeOk THEN "0" ELSE "1",
                    !.log = @ \cup {IF closeOk THEN "Database connections closed"
                                    ELSE "Error during graceful shutdown"}]
    /\ UNCHANGED <<storeVars, call, archiveResult, ingest, query, http, storeUp, script, migrate>>

\* The loadData script once loadData returned or threw: db.close(), then
\* process.exit(0) or process.exit(1); a rejected db.close() ends the process
\* with an error
ScriptExit(closeOk) ==
    /\ script.pc = "idle"
    /\ ingest.op = "loadData"
    /\ ingest.pc \in {"done", "failed"}
    /\ script' = [pc |-> "exited", pool |-> Closed(script.pool, closeOk),
                  result |-> IF ingest.pc = "done" THEN "Data loaded successfully"
                             ELSE "Data load failed",
                  exit |-> IF ingest.pc = "done" /\ closeOk THEN "0" ELSE "1"]
    /\ UNCHANGED <<storeVars, call, archiveResult, ingest, query, http, storeUp, server, migrate>>

\* --------------------------------------------------- creation only
NextCreate ==
    \/ \E c \in Callers, rec \in EventInputs : EventCreateInsert(c, rec) /\ UNCHANGED <<ingest, query, http, storeUp, server, script, migrate>>
    \/ \E c \in Callers : EventCreateSelect(c) /\ UNCHANGED <<ingest, query, http, storeUp, server, script, migrate>>
    \/ \E c \in Callers, rec \in PredictionInputs : PredictionCreateInsert(c, rec) /\ UNCHANGED <<ingest, query, http, storeUp, server, script, migrate>>
    \/ \E c \in Callers : PredictionCreateSelect(c) /\ UNCHANGED <<ingest, query, http, storeUp, server, script, migrate>>

\* Every repository operation and the archival sweep, in any interleaving.
Next ==
    \/ \E c \in Callers, rec \in EventInputs : EventCreateInsert(c, rec) /\ UNCHANGED <<ingest, query, http, storeUp, server, script, migrate>>
    \/ \E c \in Callers : EventCreateSelect(c) /\ UNCHANGED <<ingest, query, http, storeUp, server, script, migrate>>
    \/ \E c \in Callers, rec \in PredictionInputs : PredictionCreateInsert(c, rec) /\ UNCHANGED <<ingest, query, http, storeUp, server, script, migrate>>
    \/ \E c \in Callers : PredictionCreateSelect(c) /\ UNCHANGED <<ingest, query, http, storeUp, server, script, migrate>>
    \/ \E c \in Callers, id \in 1..MaxEventId, partial \in EventPartials :
          EventUpdate(c, id, partial) /\ UNCHANGED <<ingest, query, http, storeUp, server, script, migrate>>
    \/ \E c \in Callers, id \in 1..MaxPredictionId, partial \in PredictionPartials :
          PredictionUpdate(c, id, partial) /\ UNCHANGED <<ingest, query, http, storeUp, server, script, migrate>>
    \/ \E c \in Callers, id \in 1..MaxEventId : EventDelete(c, id) /\ UNCHANGED <<ingest, query, http, storeUp, server, script, migrate>>
    \/ \E retentionDays \in RetentionChoices : ArchiveOldEvents(retentionDays) /\ UNCHANGED <<ingest, query, http, storeUp, server, script, migrate>>
    \/ Tick /\ UNCHANGED <<ingest, query, http, storeUp, server, script, migrate>>

Spec == Init /\ [][Next]_vars

\* One caller loads events while time passes and the archival job runs.
NextArchive ==
    \/ \E rec \in EventInputs : EventCreateInsert("c1", rec) /\ UNCHANGED <<ingest, query, http, storeUp, server, script, migrate>>
    \/ EventCreateSelect("c1") /\ UNCHANGED <<ingest, query, http, storeUp, server, script, migrate>>
    \/ \E retentionDays \in RetentionChoices : ArchiveOldEvents(retentionDays) /\ UNCHANGED <<ingest, query, http, storeUp, server, script, migrate>>
    \/ Tick /\ UNCHANGED <<ingest, query, http, storeUp, server, script, migrate>>

SpecArchive == Init /\ [][NextArchive]_vars

\* ------------------------------------------------------------ runMigrations
\* A new database and a migrations directory that holds the first file
InitMigrate ==
    /\ events = {}
    /\ predictions = {}
    /\ nextEventId = 1
    /\ nextPredictionId = 1
    /\ now = 0
    /\ call = [c \in Clients |-> IdleCall]
    /\ archiveResult = Null
    /\ ingest = IdleIngest
    /\ query = IdleQuery
    /\ http = IdleHttp
    /\ storeUp = TRUE
    /\ server = IdleServer
    /\ script = IdleScript
    /\ migrate = [IdleMigrate EXCEPT !.dir = {Migration001}, !.db = FreshDatabase,
                                     !.begin = FreshDatabase, !.applied = {}]

\* A release adds the next migration file to the directory
DeployMigration ==
    /\ migrate.pc # "running"
    /\ \E f \in Migrations \ migrate.dir :
          /\ \A g \in Migrations : NameBefore(g.name, f.name) => g \in migrate.dir
          /\ migrate' = [migrate EXCEPT !.dir = @ \cup {f}]
    /\ UNCHANGED <<storeVars, call, archiveResult, ingest, query, http, storeUp, server, script>>

\* runMigrations: readdirSync, filter, sort
RunMigrationsStart ==
    /\ migrate.pc # "running"
    /\ migrate' = [migrate EXCEPT
                     !.pc = "running", !.files = SortFiles(migrate.dir),
                     !.file = 1, !.stmt = 1, !.begin = migrate.db,
                     !.rerun = ({f.name : f \in migrate.dir} \subseteq migrate.applied)]
    /\ UNCHANGED <<storeVars, call, archiveResult, ingest, query, http, storeUp, server, script>>

\* await db.query(sql): the next statement of the file; a statement that
\* fails undoes the file's earlier statements, db.query rejects and
\* runMigrations rethrows
RunMigrationsStatement ==
    /\ migrate.pc = "running" /\ migrate.file <= Len(migrate.files)
    /\ migrate.stmt <= Len(migrate.files[migrate.file].statements)
    /\ LET done == Execute(migrate.files[migrate.file].statements[migrate.stmt], migrate.db)
       IN migrate' = IF done.ok
                     THEN [migrate EXCEPT !.db = done.db, !.stmt = @ + 1]
                     ELSE [migrate EXCEPT !.db = migrate.begin, !.pc = "failed"]
    /\ UNCHANGED <<storeVars, call, archiveResult, ingest, query, http, storeUp, server, script>>

\* db.query resolved: 'Migration completed', on to the next file
RunMigrationsFileCompleted ==
    /\ migrate.pc = "running" /\ migrate.file <= Len(migrate.files)
    /\ migrate.stmt > Len(migrate.files[migrate.file].statements)
    /\ migrate' = [migrate EXCEPT
                     !.applied = @ \cup {migrate.files[migrate.file].name},
                     !.file = @ + 1, !.stmt = 1, !.begin = migrate.db]
    /\ UNCHANGED <<storeVars, call, archiveResult, ingest, query, http, storeUp, server, script>>

\* 'All migrations completed successfully'
RunMigrationsReturn ==
    /\ migrate.pc = "running" /\ migrate.file > Len(migrate.files)
    /\ migrate' = [migrate EXCEPT !.pc = "done"]
    /\ UNCHANGED <<storeVars, call, archiveResult, ingest, query, http, storeUp, server, script>>

NextMigrate ==
    \/ DeployMigration
    \/ RunMigrationsStart
    \/ RunMigrationsStatement
    \/ RunMigrationsFileCompleted
    \/ RunMigrationsReturn

SpecMigrate == InitMigrate /\ [][NextMigrate]_vars

\* A caller computes the reference of an event from its attributes
GenerateEventRef(c, sport, homeTeam, awayTeam, eventDate) ==
    /\ call' = [call EXCEPT ![c] =
                   Call("generateEventRef", "done",
                        <<sport, homeTeam, awayTeam, eventDate>>,
                        [kind |-> "ref",
                         ref |-> generateEventRef(sport, homeTeam, awayTeam, eventDate)])]
    /\ UNCHANGED <<storeVars, archiveResult, ingest, query, http, storeUp, server, script, migrate>>

NextRef ==
    \E c \in Callers, sport \in RefSports, homeTeam \in RefHomeTeams,
       awayTeam \in RefAwayTeams, eventDate \in RefDates :
        GenerateEventRef(c, sport, homeTeam, awayTeam, eventDate)

SpecRef == Init /\ [][NextRef]_vars

\* One caller creates and updates events while time passes and the archival
\* sweep runs.
NextKeep ==
    \/ \E rec \in KeepEvents : EventCreateInsert("c1", rec) /\ UNCHANGED <<ingest, query, http, storeUp, server, script, migrate>>
    \/ EventCreateSelect("c1") /\ UNCHANGED <<ingest, query, http, storeUp, server, script, migrate>>
    \/ \E id \in 1..MaxEventId, partial \in KeepPartials : EventUpdate("c1", id, partial) /\ UNCHANGED <<ingest, query, http, storeUp, server, script, migrate>>
    \/ ArchiveOldEvents(SeedRetention) /\ UNCHANGED <<ingest, query, http, storeUp, server, script, migrate>>
    \/ Tick /\ UNCHANGED <<ingest, query, http, storeUp, server, script, migrate>>

SpecKeep == Init /\ [][NextKeep]_vars

\* One caller creates and updates events and predictions.
NextUpdate ==
    \/ \E rec \in EventInputs : EventCreateInsert("c1", rec) /\ UNCHANGED <<ingest, query, http, storeUp, server, script, migrate>>
    \/ EventCreateSelect("c1") /\ UNCHANGED <<ingest, query, http, storeUp, server, script, migrate>>
    \/ \E rec \in PredictionInputs : PredictionCreateInsert("c1", rec) /\ UNCHANGED <<ingest, query, http, storeUp, server, script, migrate>>
    \/ PredictionCreateSelect("c1") /\ UNCHANGED <<ingest, query, http, storeUp, server, script, migrate>>
    \/ \E id \in 1..MaxEventId, partial \in EventPartials : EventUpdate("c1", id, partial) /\ UNCHANGED <<ingest, query, http, storeUp, server, script, migrate>>
    \/ \E id \in 1..MaxPredictionId, partial \in PredictionPartials :
          PredictionUpdate("c1", id, partial) /\ UNCHANGED <<ingest, query, http, storeUp, server, script, migrate>>

SpecUpdate == Init /\ [][NextUpdate]_vars

\* Create calls alone, from any number of callers in any interleaving.
\* The loader works through an events file while a caller creates and deletes
\* events.
NextIngest ==
    \/ \E file \in EventFiles : LoadEventsStart(file)
    \/ LoadEventsSkip
    \/ LoadEventsCreate
    \/ LoadEventsSelect
    \/ LoadEventsReturn
    \/ \E rec \in EventInputs : EventCreateInsert("c1", rec) /\ UNCHANGED <<ingest, query, http, storeUp, server, script, migrate>>
    \/ EventCreateSelect("c1") /\ UNCHANGED <<ingest, query, http, storeUp, server, script, migrate>>
    \/ \E id \in 1..MaxEventId : EventDelete("c1", id) /\ UNCHANGED <<ingest, query, http, storeUp, server, script, migrate>>

SpecIngest == Init /\ [][NextIngest]_vars

\* Before the client's first request a caller seeds the store at time 0 and
\* time passes; the archival job runs at any point, also between two pages.
NextQuery ==
    \/ \E filters \in EventFilterChoices, limit \in LimitChoices :
          ListRequest("events", filters, limit)
    \/ \E filters \in PredictionFilterChoices, limit \in LimitChoices :
          ListRequest("predictions", filters, limit)
    \/ FindAllCount
    \/ FindAllPage
    \/ NextPage
    \/ \E rec \in SeedEvents :
          /\ now = 0 /\ query.pc = "idle"
          /\ EventCreateInsert("c1", rec) /\ UNCHANGED <<ingest, query, http, storeUp, server, script, migrate>>
    \/ query.pc = "idle" /\ EventCreateSelect("c1") /\ UNCHANGED <<ingest, query, http, storeUp, server, script, migrate>>
    \/ \E rec \in SeedPredictions :
          /\ now = 0 /\ query.pc = "idle"
          /\ PredictionCreateInsert("c1", rec) /\ UNCHANGED <<ingest, query, http, storeUp, server, script, migrate>>
    \/ query.pc = "idle" /\ PredictionCreateSelect("c1") /\ UNCHANGED <<ingest, query, http, storeUp, server, script, migrate>>
    \/ query.pc = "idle" /\ Tick /\ UNCHANGED <<ingest, query, http, storeUp, server, script, migrate>>
    \/ ArchiveOldEvents(SeedRetention) /\ Disturb /\ UNCHANGED <<ingest, http, storeUp, server, script, migrate>>

SpecQuery == Init /\ [][NextQuery]_vars

\* Two callers create and delete events and predictions.
DeleteEvents == {Hashed(Fixture1), Hashed(Fixture3)}
DeletePredictions == {Prediction(1, "WINNER", "home", 80), Prediction(2, "WINNER", "away", 80)}
NextDelete ==
    \/ \E c \in Callers, rec \in DeleteEvents :
          EventCreateInsert(c, rec) /\ UNCHANGED <<ingest, query, http, storeUp, server, script, migrate>>
    \/ \E c \in Callers : EventCreateSelect(c) /\ UNCHANGED <<ingest, query, http, storeUp, server, script, migrate>>
    \/ \E c \in Callers, rec \in DeletePredictions :
          PredictionCreateInsert(c, rec) /\ UNCHANGED <<ingest, query, http, storeUp, server, script, migrate>>
    \/ \E c \in Callers : PredictionCreateSelect(c) /\ UNCHANGED <<ingest, query, http, storeUp, server, script, migrate>>
    \/ \E c \in Callers, id \in 1..MaxEventId :
          EventDelete(c, id) /\ UNCHANGED <<ingest, query, http, storeUp, server, script, migrate>>
    \/ \E c \in Callers, id \in 1..MaxPredictionId :
          PredictionDelete(c, id) /\ UNCHANGED <<ingest, query, http, storeUp, server, script, migrate>>

SpecDelete == Init /\ [][NextDelete]_vars

\* The loader runs loadData on a pair of files, again and again, while a
\* caller creates and updates predictions of its own.
NextLoad ==
    \/ \E file \in EventFiles, predictionsFile \in PredictionFiles :
          LoadDataStart(file, predictionsFile)
    \/ LoadEventsSkip
    \/ LoadEventsCreate
    \/ LoadEventsSelect
    \/ LoadEventsReturn
    \/ LoadPredictionsSkip
    \/ LoadPredictionsThrow
    \/ LoadPredictionsCreate
    \/ LoadPredictionsSelect
    \/ LoadDataReturn
    \/ \E rec \in PredictionInputs :
          PredictionCreateInsert("c1", rec) /\ UNCHANGED <<ingest, query, http, storeUp, server, script, migrate>>
    \/ PredictionCreateSelect("c1") /\ UNCHANGED <<ingest, query, http, storeUp, server, script, migrate>>
    \/ \E id \in 1..MaxPredictionId, partial \in PredictionPartials :
          PredictionUpdate("c1", id, partial) /\ UNCHANGED <<ingest, query, http, storeUp, server, script, migrate>>

SpecLoad == Init /\ [][NextLoad]_vars

\* A caller seeds the store, one event per instant and then the predictions,
\* while time passes; then a client sends requests to the API, one after the
\* other.
HttpSeedEvents == <<Hashed(Fixture1), Hashed(Fixture2), Hashed(Fixture3)>>
HttpSeedPredictions == <<Prediction(1, "SCORE", "2-1", 40), Prediction(2, "WINNER", "away", 80)>>
NextHttp ==
    \/ \E id \in IdSegments : GetPredictionById(id)
    \/ \E id \in IdSegments, includePredictions \in {UNDEFINED, "false"} :
          GetEventById(id, includePredictions)
    \/ \E q \in PredictionQueries : GetPredictions(q)
    \/ \E q \in EventQueries : GetEvents(q)
    \/ FindAllCount
    \/ FindAllThrow
    \/ FindAllPage
    \/ ListAnswer
    \/ /\ http.pc = "idle"
       /\ nextEventId \in DOMAIN HttpSeedEvents
       /\ now = nextEventId - 1
       /\ EventCreateInsert("c1", HttpSeedEvents[nextEventId])
       /\ UNCHANGED <<ingest, query, http, storeUp, server, script, migrate>>
    \/ /\ http.pc = "idle"
       /\ nextPredictionId \in DOMAIN HttpSeedPredictions
       /\ nextEventId > Len(HttpSeedEvents)
       /\ PredictionCreateInsert("c1", HttpSeedPredictions[nextPredictionId])
       /\ UNCHANGED <<ingest, query, http, storeUp, server, script, migrate>>
    \/ http.pc = "idle" /\ Tick /\ UNCHANGED <<ingest, query, http, storeUp, server, script, migrate>>

SpecHttp == Init /\ [][NextHttp]_vars

\* The server starts and its archive job fires again and again while a caller
\* seeds the store, time passes and the database goes down and comes back.
NextJob ==
    \/ \E scheduleValid \in BOOLEAN : StartServer(scheduleValid)
    \/ ArchiveJobRun(SeedRetention)
    \/ StoreFails
    \/ StoreRecovers
    \/ /\ storeUp
       /\ nextEventId \in DOMAIN HttpSeedEvents
       /\ now = nextEventId - 1
       /\ EventCreateInsert("c1", HttpSeedEvents[nextEventId])
       /\ UNCHANGED <<ingest, query, http, storeUp, server, script, migrate>>
    \/ Tick /\ UNCHANGED <<ingest, query, http, storeUp, server, script, migrate>>

SpecJob == Init /\ [][NextJob]_vars
\* node-cron keeps firing the schedule for as long as the process runs.
SpecJobFair == SpecJob /\ WF_vars(ArchiveJobRun(SeedRetention))

\* The lives of the two processes: the server starts, with the database up or
\* down, and is signalled; the loadData script runs once on a pair of files
\* and exits. The store is empty when the script starts, so no event of its
\* files is in conflict.
NextProcess ==
    \/ \E scheduleValid \in BOOLEAN : StartServer(scheduleValid)
    \/ \E closeOk \in BOOLEAN : GracefulShutdown(closeOk)
    \/ ingest.pc = "idle" /\ StoreFails
    \/ ingest.pc = "idle" /\ StoreRecovers
    \/ \E file \in EventFiles, predictionsFile \in PredictionFiles :
          storeUp /\ ingest.pc = "idle" /\ LoadDataStart(file, predictionsFile)
    \/ LoadEventsSkip
    \/ LoadEventsCreate
    \/ LoadEventsReturn
    \/ LoadPredictionsSkip
    \/ LoadPredictionsThrow
    \/ LoadPredictionsCreate
    \/ LoadPredictionsSelect
    \/ LoadDataReturn
    \/ \E closeOk \in BOOLEAN : ScriptExit(closeOk)

SpecProcess == Init /\ [][NextProcess]_vars

\* loadData runs on a pair of files against the empty store and, once it
\* ended, a second time on the same pair; nothing else writes.
NextReload ==
    \/ ingest.pc = "idle" /\ Tick /\ UNCHANGED <<ingest, query, http, storeUp, server, script, migrate>>
    \/ \E file \in EventFiles, predictionsFile \in PredictionFiles :
          ingest.pc = "idle" /\ LoadDataStart(file, predictionsFile)
    \/ LoadDataAgain
    \/ LoadEventsSkip
    \/ LoadEventsCreate
    \/ LoadEventsSelect
    \/ LoadEventsReturn
    \/ LoadPredictionsSkip
    \/ LoadPredictionsThrow
    \/ LoadPredictionsCreate
    \/ LoadPredictionsSelect
    \/ LoadDataReturn

SpecReload == Init /\ [][NextReload]_vars

SpecCreate == Init /\ [][NextCreate]_vars

\* C1: under Create calls alone, the store holds at most one event row per
\* event_ref, and every finished Create whose record meets the table's NOT NULL
\* and CHECK constraints returned, without raising, the stored row of its
\* event_ref (so all Creates of one event_ref return the same id).
C1_EventCreateIdempotent ==
    /\ \A e1, e2 \in events : e1.event_ref = e2.event_ref => e1 = e2
    /\ \A c \in Callers :
          (Finished(c, "createEvent") /\ EventConstraintsOk(call[c].arg)) =>
             /\ call[c].result.kind = "row"
             /\ call[c].result.row \in events
             /\ call[c].result.row.event_ref = call[c].arg.event_ref
    /\ \A c, d \in Callers :
          (/\ Finished(c, "createEvent") /\ Finished(d, "createEvent")
           /\ EventConstraintsOk(call[c].arg) /\ EventConstraintsOk(call[d].arg)
           /\ call[c].arg.event_ref = call[d].arg.event_ref) =>
             call[c].result.row.id = call[d].result.row.id

\* C3: every stored event's event_ref is generateEventRef of that row's own
\* sport, home_team, away_team and event_date.
C3_EventRefIsHash ==
    \A e \in events :
        e.event_ref = generateEventRef(e.sport, e.home_team, e.away_team, e.event_date)

\* C4: no step changes the event_ref of a stored event (the row of an id keeps
\* the event_ref it was created with).
C4_EventRefImmutable ==
    [][\A e \in events : \A f \in events' : f.id = e.id => f.event_ref = e.event_ref]_vars

\* The client has every page of its listing, and nothing wrote to the store
\* since its first request.
SweepDone ==
    /\ query.pc = "responded"
    /\ query.page >= query.responses[Len(query.responses)].totalPages
    /\ query.steady

\* Where a record of the given id stands in the pages received
Places(id) ==
    {pos \in (DOMAIN query.responses) \X (1..query.limit) :
        /\ pos[2] \in DOMAIN query.responses[pos[1]].data
        /\ query.responses[pos[1]].data[pos[2]].id = id}
ReturnedIds ==
    UNION {{query.responses[i].data[j].id : j \in DOMAIN query.responses[i].data} :
              i \in DOMAIN query.responses}
MatchingIds ==
    IF query.list = "events" THEN {e.id : e \in MatchingEvents(query.filters)}
    ELSE {p.id : p \in MatchingPredictions(query.filters)}
RECURSIVE SizeSum(_)
SizeSum(responses) ==
    IF responses = <<>> THEN 0 ELSE Len(Head(responses).data) + SizeSum(Tail(responses))

\* C5: a client that requested pages 1..totalPages of an unchanged store has
\* each matching record on exactly one page and nothing else; the page sizes
\* sum to total; totalPages = ceil(total / limit).
C5_PagesPartitionMatches ==
    SweepDone =>
        /\ \A id \in MatchingIds : Cardinality(Places(id)) = 1
        /\ ReturnedIds \subseteq MatchingIds
        /\ SizeSum(query.responses) = query.responses[1].total
        /\ \A i \in DOMAIN query.responses :
              query.responses[i].totalPages * query.limit >= query.responses[i].total
              /\ (query.responses[i].totalPages - 1) * query.limit < query.responses[i].total

\* C6: every record a list query returns satisfies every filter the request
\* supplied: sport, league, status and predictionType equal, team the home or
\* the away team, startDate <= event_date <= endDate, confidence_score >=
\* minConfidence (the event columns are those of the record's event when the
\* query ran).
Supplied(filters, k) ==
    /\ k \in DOMAIN filters
    /\ IF k \in {"startDate", "endDate", "minConfidence"} THEN filters[k] # NaN
       ELSE filters[k] # UNDEFINED
SatisfiesFilters(e, filters) ==
    /\ Supplied(filters, "sport") => e.sport = filters.sport
    /\ Supplied(filters, "league") => e.league = filters.league
    /\ Supplied(filters, "status") => e.status = filters.status
    /\ Supplied(filters, "team") => filters.team \in {e.home_team, e.away_team}
    /\ Supplied(filters, "startDate") => filters.startDate <= e.event_date
    /\ Supplied(filters, "endDate") => e.event_date <= filters.endDate
C6_PageStep ==
    (query.pc = "page" /\ query'.pc = "responded") =>
        LET data == query'.responses[Len(query'.responses)].data
        IN \A i \in DOMAIN data :
              IF query.list = "events"
              THEN SatisfiesFilters(data[i], query.filters)
              ELSE /\ \E e \in events :
                        e.id = data[i].event_id /\ SatisfiesFilters(e, query.filters)
                   /\ Supplied(query.filters, "predictionType") =>
                        data[i].prediction_type = query.filters.predictionType
                   /\ Supplied(query.filters, "minConfidence") =>
                        data[i].confidence_score >= query.filters.minConfidence

C6_ReturnedSatisfyFilters == [][C6_PageStep]_vars

\* A predictions page filtered by team, type and confidence came back with a
\* record while the store holds a prediction the filters reject.
C6_Witness ==
    /\ query.pc = "responded" /\ query.list = "predictions"
    /\ query.filters.team = "Arsenal" /\ query.filters.minConfidence = 50
    /\ query.responses[1].data # <<>>
    /\ \E p \in predictions : p.confidence_score < 50

\* C7: a list query whose includeArchived is absent or false (an events query
\* has no such filter) returns no record whose event is archived when the
\* query runs.
C7_PageStep ==
    (/\ query.pc = "page" /\ query'.pc = "responded"
     /\ (query.list = "events" \/ ~query.filters.includeArchived)) =>
        LET data == query'.responses[Len(query'.responses)].data
        IN \A i \in DOMAIN data :
              \A e \in events :
                  e.id = (IF query.list = "events" THEN data[i].id ELSE data[i].event_id)
                      => ~e.is_archived

C7_ArchivedExcluded == [][C7_PageStep]_vars

\* A default predictions query returned a record while the store holds a
\* prediction of an archived event, which it left out.
C7_Witness ==
    /\ query.pc = "responded" /\ query.list = "predictions"
    /\ ~query.filters.includeArchived
    /\ query.responses[1].data # <<>>
    /\ \E p \in predictions :
          /\ EventOf(p).is_archived
          /\ \A i \in DOMAIN query.responses[1].data : query.responses[1].data[i].id # p.id

\* C8: an archival run leaves every event older than now - retentionDays
\* archived, leaves every event at or after that cutoff as it was, flips
\* nothing but is_archived, and returns the number of rows it flipped from
\* false to true.
C8_ArchiveStep ==
    \A retentionDays \in RetentionChoices :
        ArchiveOldEvents(retentionDays) =>
            LET cutoff == now - retentionDays
                flipped == {e \in events :
                               ~e.is_archived /\ [e EXCEPT !.is_archived = TRUE] \in events'}
            IN /\ \A f \in events' : f.event_date < cutoff => f.is_archived
               /\ \A e \in events : e.event_date >= cutoff => e \in events'
               /\ \A e \in events :
                     e \in events' \/ [e EXCEPT !.is_archived = TRUE] \in events'
               /\ Cardinality(events') = Cardinality(events)
               /\ archiveResult'.archivedCount = Cardinality(flipped)

C8_ArchiveSweep == [][C8_ArchiveStep]_vars

\* The last run archived something and left a more recent event alone.
C8_Witness ==
    /\ archiveResult # Null
    /\ archiveResult.archivedCount >= 1
    /\ \E e \in events : e.is_archived /\ e.event_date < archiveResult.archivedBefore
    /\ \E e \in events : ~e.is_archived /\ e.event_date >= archiveResult.archivedBefore

\* C9: an archival run made when every event older than the cutoff is already
\* archived changes no row and returns 0.
C9_RerunStep ==
    \A retentionDays \in RetentionChoices :
        (/\ ArchiveOldEvents(retentionDays)
         /\ \A e \in events : e.event_date < now - retentionDays => e.is_archived) =>
            /\ events' = events
            /\ archiveResult'.archivedCount = 0

C9_ArchiveIdempotent == [][C9_RerunStep]_vars

\* A run returned 0 although an event older than its cutoff is stored: an
\* earlier run had archived it.
C9_Witness ==
    /\ archiveResult # Null
    /\ archiveResult.archivedCount = 0
    /\ \E e \in events : e.is_archived /\ e.event_date < archiveResult.archivedBefore

\* C10 as stated: update with no field to set, for an existing id, leaves the
\* store unchanged and returns the current record of that id.
C10_NoFieldsStepClaimed ==
    LET done == call'["c1"]
    IN /\ (/\ done.op = "updateEvent"
           /\ EventUpdate("c1", done.arg.id, done.arg.partial)
           /\ SetFields(done.arg.partial) = {}
           /\ \E e \in events : e.id = done.arg.id) =>
              /\ events' = events /\ predictions' = predictions
              /\ done.result \in {Row(e) : e \in {x \in events : x.id = done.arg.id}}
       /\ (/\ done.op = "updatePrediction"
           /\ PredictionUpdate("c1", done.arg.id, done.arg.partial)
           /\ SetFields(done.arg.partial) = {}
           /\ \E q \in predictions : q.id = done.arg.id) =>
              /\ events' = events /\ predictions' = predictions
              /\ done.result \in {Row(q) : q \in {x \in predictions : x.id = done.arg.id}}

C10_NoFieldsReturnsRecord == [][C10_NoFieldsStepClaimed]_vars

\* C10 amended: update with no field to set (an empty object, or undefined
\* values only), for an existing id, leaves the store unchanged and returns
\* null.
C10_NoFieldsStep ==
    LET done == call'["c1"]
    IN /\ (/\ done.op = "updateEvent"
           /\ EventUpdate("c1", done.arg.id, done.arg.partial)
           /\ SetFields(done.arg.partial) = {}
           /\ \E e \in events : e.id = done.arg.id) =>
              /\ events' = events /\ predictions' = predictions
              /\ done.result = Null
       /\ (/\ done.op = "updatePrediction"
           /\ PredictionUpdate("c1", done.arg.id, done.arg.partial)
           /\ SetFields(done.arg.partial) = {}
           /\ \E q \in predictions : q.id = done.arg.id) =>
              /\ events' = events /\ predictions' = predictions
              /\ done.result = Null

C10_NoFieldsReturnsNull == [][C10_NoFieldsStep]_vars

\* An update carrying only an undefined value, for a stored event, returned
\* null.
C10_Witness ==
    /\ Finished("c1", "updateEvent")
    /\ call["c1"].arg.partial = [kind |-> "partial", status |-> UNDEFINED]
    /\ \E e \in events : e.id = call["c1"].arg.id
    /\ call["c1"].result = Null

\* Two callers created the same event_ref: one inserted, the other met the
\* conflict, and both hold the one stored row.
C1_Witness ==
    /\ Finished("c1", "createEvent") /\ Finished("c2", "createEvent")
    /\ call["c1"].arg = call["c2"].arg
    /\ call["c1"].result.kind = "row"
    /\ call["c1"].result = call["c2"].result
    /\ Cardinality(events) = 2

\* C2: under Create calls alone, the store holds at most one prediction per
\* event_id; a prediction Create whose record meets the table's constraints and
\* whose event already has a prediction does not raise and inserts nothing, and
\* its read-back returns the existing prediction row of that event.
C2_OnePredictionPerEvent ==
    \A p1, p2 \in predictions : p1.event_id = p2.event_id => p1 = p2

C2_ConflictStep ==
    \A c \in Callers, rec \in PredictionInputs :
        (/\ PredictionCreateInsert(c, rec)
         /\ PredictionConstraintsOk(rec)
         /\ PredictionsOf(rec.event_id) # {}) =>
            /\ predictions' = predictions
            /\ call'[c].result # Thrown
            /\ call'[c].pc = "select"

C2_ReadBackStep ==
    \A c \in Callers :
        PredictionCreateSelect(c) =>
            /\ call'[c].pc = "done"
            /\ call'[c].result.kind = "row"
            /\ call'[c].result.row \in predictions'
            /\ call'[c].result.row.event_id = call[c].arg.event_id

C2_PredictionCreateIdempotent ==
    /\ []C2_OnePredictionPerEvent
    /\ [][C2_ConflictStep]_vars
    /\ [][C2_ReadBackStep]_vars

\* A Create met an existing prediction of its event and returned that row,
\* not one built from its own record.
C2_Witness ==
    \E c \in Callers :
        /\ Finished(c, "createPrediction")
        /\ call[c].result.kind = "row"
        /\ call[c].result.row.event_id = call[c].arg.event_id
        /\ call[c].result.row.predicted_value # call[c].arg.predicted_value
        /\ predictions = {call[c].result.row}

\* C11: no stored prediction refers to an event that is not stored; a delete of
\* an event leaves neither the event nor any prediction of it, and returns true
\* exactly when a row of that id was stored; a delete of a prediction returns
\* true exactly when a row of that id was stored.
C11_NoOrphans == \A q \in predictions : \E e \in events : e.id = q.event_id
C11_DeleteStep ==
    \A c \in Callers :
        LET done == call'[c]
        IN /\ (done.op = "deleteEvent" /\ EventDelete(c, done.arg.id)) =>
                /\ \A e \in events' : e.id # done.arg.id
                /\ \A q \in predictions' : q.event_id # done.arg.id
                /\ \A e \in events : e.id # done.arg.id => e \in events'
                /\ \A q \in predictions : q.event_id # done.arg.id => q \in predictions'
                /\ done.result = Bool(\E e \in events : e.id = done.arg.id)
           /\ (done.op = "deletePrediction" /\ PredictionDelete(c, done.arg.id)) =>
                /\ \A q \in predictions' : q.id # done.arg.id
                /\ events' = events
                /\ done.result = Bool(\E q \in predictions : q.id = done.arg.id)
C11_DeleteCascades == []C11_NoOrphans /\ [][C11_DeleteStep]_vars

\* One caller deleted an event that existed while the other holds the
\* prediction it had created for that event, which is stored no more; another
\* event is still stored.
C11_Witness ==
    /\ Finished("c1", "deleteEvent") /\ call["c1"].result = Bool(TRUE)
    /\ Finished("c2", "createPrediction") /\ call["c2"].result.kind = "row"
    /\ call["c2"].result.row.event_id = call["c1"].arg.id
    /\ call["c2"].result.row \notin predictions
    /\ events # {}

\* C12: every stored prediction has confidence_score in 0..100; a create
\* carrying a score outside that range, by a direct caller or by the loader,
\* and an update of a stored prediction to such a score, raise and leave the
\* predictions as they were.
C12_InRange ==
    \A q \in predictions : q.confidence_score >= 0 /\ q.confidence_score <= 100
C12_RejectStep ==
    \A c \in Clients :
        LET done == call'[c]
        IN /\ (/\ done.op = "createPrediction"
               /\ PredictionCreateInsert(c, done.arg)
               /\ done.arg.confidence_score \notin 0..100) =>
                  predictions' = predictions /\ done.pc = "done" /\ done.result = Thrown
           /\ (/\ done.op = "updatePrediction"
               /\ PredictionUpdate(c, done.arg.id, done.arg.partial)
               /\ "confidence_score" \in DOMAIN done.arg.partial
               /\ done.arg.partial.confidence_score \notin 0..100
               /\ \E q \in predictions : q.id = done.arg.id) =>
                  predictions' = predictions /\ done.result = Thrown
C12_ConfidenceInRange == []C12_InRange /\ [][C12_RejectStep]_vars

\* The loader's create of a record with score 150 raised and ended the load,
\* and a caller's update of a stored prediction to 150 raised.
C12_Witness ==
    /\ Finished("loader", "createPrediction")
    /\ call["loader"].arg.confidence_score = 150
    /\ call["loader"].result = Thrown
    /\ ingest.pc = "failed"
    /\ Finished("c1", "updatePrediction")
    /\ call["c1"].arg.partial = [kind |-> "partial", confidence_score |-> 150]
    /\ \E q \in predictions : q.id = call["c1"].arg.id
    /\ call["c1"].result = Thrown

\* C13: a load never ends on a raised error because of one of its records: a
\* record that fails validation is skipped and the records after it are
\* processed.  (The one other way a load can fail is create returning no row
\* because the row it conflicted with was deleted meanwhile.)
C13_BadRecordSkipped ==
    ingest.pc = "failed" => call["loader"].result = Undefined

\* C14: when loadData returns, the numbers of events and of predictions in its
\* summary are the numbers of rows this run stored.
C14_SummaryCountsCreated ==
    (ingest.op = "loadData" /\ ingest.pc = "done") =>
        /\ Len(ingest.createdEvents) = ingest.insertedEvents
        /\ Len(ingest.predictionIds) = ingest.insertedPredictions

\* C15: GET /api/predictions/:id and GET /api/events/:id answer 400 when the
\* id segment is not a number, 404 when it is a number and no row has that id,
\* and 200 otherwise; absence is never answered with a storage error.
Unsigned(id) == IF id # <<>> /\ Head(id) \in {"-", "+"} THEN Tail(id) ELSE id
IsNumber(id) == Unsigned(id) # <<>> /\ \A i \in DOMAIN Unsigned(id) : Unsigned(id)[i] \in Digits
ByIdRoutes == {"GET /api/predictions/:id", "GET /api/events/:id"}
RowExists(route, id) ==
    /\ ParseInt(id).int4
    /\ IF route = "GET /api/events/:id"
       THEN \E e \in events : e.id = ParseInt(id).value
       ELSE \E p \in predictions : p.id = ParseInt(id).value
C15_ByIdStatus ==
    (http.pc = "done" /\ http.route \in ByIdRoutes) =>
        http.status = IF ~IsNumber(http.request.id) THEN 400
                      ELSE IF ~RowExists(http.route, http.request.id) THEN 404
                      ELSE 200

\* C16 as stated: a list request whose predictionType is none of WINNER, SCORE,
\* OVER_UNDER, whose minConfidence is not a number in [0, 100] or whose when is
\* none of upcoming, past, all is answered 400 and nothing is passed to the
\* repositories.
ListRoutes == {"GET /api/predictions", "GET /api/events"}
ListRequested == http.route \in ListRoutes /\ http.pc \in {"findAll", "done"}
Rejected == http.pc = "done" /\ http.status = 400 /\ http.passed = NoArg
C16_SuppliedInvalid(route, q) ==
    IF route = "GET /api/predictions"
    THEN \/ "predictionType" \in DOMAIN q /\ q.predictionType \notin {"WINNER", "SCORE", "OVER_UNDER"}
         \/ /\ "minConfidence" \in DOMAIN q
            /\ ~(IsNumber(q.minConfidence) /\ ParseInt(q.minConfidence).value \in 0..100)
    ELSE "when" \in DOMAIN q /\ q.when \notin {"upcoming", "past", "all"}
C16_NonEmptyInvalid(route, q) ==
    IF route = "GET /api/predictions"
    THEN \/ /\ "predictionType" \in DOMAIN q
            /\ q.predictionType \notin {"", "WINNER", "SCORE", "OVER_UNDER"}
         \/ /\ "minConfidence" \in DOMAIN q
            /\ q.minConfidence # <<>>
            /\ ParseInt(q.minConfidence).nan \/ ParseInt(q.minConfidence).value \notin 0..100
    ELSE "when" \in DOMAIN q /\ q.when \notin {"upcoming", "past", "all"}
C16_PassedValid ==
    http.passed # NoArg =>
        IF http.route = "GET /api/predictions"
        THEN /\ http.passed.filters.predictionType \in {UNDEFINED, "WINNER", "SCORE", "OVER_UNDER"}
             /\ http.passed.filters.minConfidence \in {NaN} \cup 0..100
        ELSE http.passed.filters.when \in {"upcoming", "past", "all"}
C17_UnparseableDate(q) ==
    \E k \in {"startDate", "endDate"} : k \in DOMAIN q /\ q[k] # "" /\ ParseDate(q[k]) = NaN
C17_InvalidDateRejected ==
    (ListRequested /\ C17_UnparseableDate(http.request)) => Rejected

\* C18: whatever the page and limit values of a list request, the pagination
\* passed to the repositories has limit in [1, 100], page >= 1 and
\* offset = (page - 1) * limit; a limit above 100 is clamped to 100 and the
\* request is not rejected for its page or limit.
C18_AsksAbove100(q) ==
    /\ "limit" \in DOMAIN q
    /\ IsNumber(q.limit)
    /\ ParseInt(q.limit).value > 100
C19_OtherFilters(e, q) ==
    /\ ~e.is_archived
    /\ "team" \in DOMAIN q => (e.home_team = q.team \/ e.away_team = q.team)
    /\ "startDate" \in DOMAIN q => e.event_date >= ParseDate(q.startDate)
    /\ "endDate" \in DOMAIN q => e.event_date <= ParseDate(q.endDate)
C19_Expected(q) ==
    LET when == IF "when" \in DOMAIN q THEN q.when ELSE "all" IN
    {e.id : e \in {x \in events :
                     /\ C19_OtherFilters(x, q)
                     /\ when = "upcoming" => x.event_date >= now
                     /\ when = "past" => x.event_date < now}}
C19_Answered ==
    /\ http.pc = "done"
    /\ http.route = "GET /api/events"
    /\ http.status = 200
C19_Ids(w) == {e.id : e \in MatchingEvents([http.passed.filters EXCEPT !.when = w])}
C19_WhenPartitions ==
    C19_Answered =>
        LET page == http.body.page
            returned == {page.data[i].id : i \in DOMAIN page.data}
        IN /\ page.total = Cardinality(C19_Expected(http.request))
           /\ returned \subseteq C19_Expected(http.request)
           /\ (page.page = 1 /\ page.limit >= page.total) =>
                returned = C19_Expected(http.request)
           /\ C19_Ids("upcoming") \cap C19_Ids("past") = {}
           /\ C19_Ids("upcoming") \cup C19_Ids("past") = C19_Ids("all")
C19_Witness ==
    /\ C19_Answered
    /\ http.request = [when |-> "upcoming"]
    /\ \E i \in DOMAIN http.body.page.data : http.body.page.data[i].event_date = now
    /\ C19_Ids("past") # {}

\* C20: every returned list page is ordered by event date descending, ties on
\* event date broken by creation time descending, except that a when=upcoming
\* events list is ordered by event date ascending.
C20_EventDate(route, r) ==
    IF route = "GET /api/events" THEN r.event_date ELSE EventOf(r).event_date
C20_Ascending ==
    http.route = "GET /api/events" /\ http.passed.filters.when = "upcoming"
C20_InOrder(a, b) ==
    LET da == C20_EventDate(http.route, a)
        db == C20_EventDate(http.route, b)
    IN \/ IF C20_Ascending THEN da < db ELSE da > db
       \/ da = db /\ a.created_at >= b.created_at
C20_PagesOrdered ==
    (http.pc = "done" /\ http.route \in ListRoutes /\ http.status = 200) =>
        LET data == http.body.page.data IN
        \A i, j \in DOMAIN data : i < j => C20_InOrder(data[i], data[j])

\* C21: every event of an answered events list, and the event of an answered
\* event detail with predictions included, carries a prediction field that is
\* the event's most recently created prediction, or null when it has none,
\* and a winner field that is that prediction's predicted_value, or null
\* exactly when prediction is null.
C21_Carries(r) ==
    /\ {"prediction", "winner"} \subseteq DOMAIN r
    /\ IF \E p \in predictions : p.event_id = r.id
       THEN /\ r.prediction # Null
            /\ r.prediction.row \in predictions
            /\ r.prediction.row.event_id = r.id
            /\ \A p \in predictions :
                 p.event_id = r.id => p.created_at <= r.prediction.row.created_at
            /\ r.winner = r.prediction.row.predicted_value
            /\ r.winner # NULL
       ELSE r.prediction = Null /\ r.winner = NULL
C21_Returned ==
    IF http.pc = "done" /\ http.status = 200 /\ http.route = "GET /api/events"
    THEN {http.body.page.data[i] : i \in DOMAIN http.body.page.data}
    ELSE IF /\ http.pc = "done" /\ http.status = 200
            /\ http.route = "GET /api/events/:id"
            /\ http.request.includePredictions # "false"
    THEN {http.body.row}
    ELSE {}
C21_LatestPredictionAttached == \A r \in C21_Returned : C21_Carries(r)
C21_Witness ==
    /\ http.route = "GET /api/events"
    /\ \E r \in C21_Returned : r.prediction = Null
    /\ \E r \in C21_Returned : r.prediction # Null /\ r.winner = "away"

\* C22: an archival run that meets a storage error changes no row, logs the
\* error and leaves the schedule active; and if the store recovers for good
\* while the server runs, from some point on no event is left that the sweep
\* should archive.
C22_FailedRunStep ==
    (server.pc = "listening" /\ server.scheduled /\ ~storeUp /\ server' # server) =>
        /\ events' = events
        /\ server'.scheduled
        /\ server'.pc = "listening"
        /\ "Archive job failed" \in server'.log
C22_Recovered == storeUp /\ server.pc = "listening"
C22_AllSwept == \A e \in events : ~Stale(e, SeedRetention)
C22_FailedRunConfined ==
    /\ [][C22_FailedRunStep]_vars
    /\ (<>[]C22_Recovered) => <>[]C22_AllSwept
C22_Witness ==
    /\ {"Archive job failed", "Archive job completed successfully"} \subseteq server.log
    /\ server.lastRun = "completed"
    /\ \E e \in events : e.is_archived
    /\ archiveResult # Null /\ archiveResult.archivedCount > 0

\* C23: whichever way a process exits (a shutdown signal, a failed server
\* startup, the loadData script after success or after failure), db.close()
\* was called on the connection pool before the exit.
C23_PoolClosedBeforeExit ==
    /\ server.pc = "exited" => server.pool # "open"
    /\ script.pc = "exited" => script.pool # "open"

\* C24: once loadData has returned, a second run on the same two files
\* changes no event row and no prediction row, and does not raise.
C24_RerunStep ==
    /\ ingest'.rerun # "none" => events' = events /\ predictions' = predictions
    /\ ingest'.rerun = "done" => ingest'.pc # "failed"
C25_PageStep ==
    (query.pc = "page" /\ query'.pc = "responded") =>
        query'.responses[Len(query'.responses)].total =
            IF query.list = "events"
            THEN Cardinality(MatchingEvents(query.filters))
            ELSE Cardinality(MatchingPredictions(query.filters))
C25_TotalOfPageState == [][C25_PageStep]_vars

\* C26: an event that is archived is still archived after every step, for as
\* long as its row exists.
C26_ArchivedStays ==
    \A e \in events : e.is_archived =>
        \A f \in events' : f.id = e.id => f.is_archived
C26_ArchivedForever == [][C26_ArchivedStays]_vars

\* C27: an event create that returns hands back an event row, never
\* undefined, whatever another caller deletes while it runs.
C27_CreateReturnsRow ==
    \A c \in Callers : Finished(c, "createEvent") => call[c].result # Undefined

\* C28: a prediction record that names its event by event_index i is stored
\* for the event made from record i of the events file, and a record whose
\* index is no position of that file is skipped while the load goes on.
C28_ByIndex ==
    /\ ingest.pc = "predictions"
    /\ ingest.index <= Len(ingest.predictionsFile)
    /\ ingest' # ingest
    /\ ~Truthy(Field(ingest.predictionsFile[ingest.index], "event_ref"))
    /\ "event_index" \in DOMAIN ingest.predictionsFile[ingest.index]
C28_Attached ==
    LET i == ingest.predictionsFile[ingest.index].event_index
    IN (i \in 0..(Len(ingest.file) - 1) /\ EventDate(ingest.file[i + 1]) # NaN) =>
          /\ call'["loader"].op = "createPrediction"
          /\ call'["loader"] # call["loader"]
          /\ \E e \in events : /\ e.event_ref = ingest.file[i + 1].event_ref
                               /\ e.id = call'["loader"].arg.event_id
C28_OnlySkipped ==
    LET i == ingest.predictionsFile[ingest.index].event_index
    IN i \notin 0..(Len(ingest.file) - 1) =>
          /\ ingest' = [ingest EXCEPT !.index = @ + 1]
          /\ predictions' = predictions
C28_IndexResolved == [][C28_ByIndex => (C28_Attached /\ C28_OnlySkipped)]_vars

\* C29: two attribute tuples that differ in sport, home team, away team or
\* date never get the same reference.
C29_RefInjective ==
    \A c, d \in Callers :
        (Finished(c, "generateEventRef") /\ Finished(d, "generateEventRef")
            /\ call[c].arg # call[d].arg)
        => call[c].result.ref # call[d].result.ref

\* C30: runMigrations takes the files in ascending order of name, and a run
\* that starts with every file of the directory already applied ends without
\* an error and changes nothing in the schema.
C30_Ascending ==
    \A i, j \in DOMAIN migrate.files :
        i < j => NameBefore(migrate.files[i].name, migrate.files[j].name)
C30_FileCommitted == migrate.pc = "running" /\ migrate'.file = migrate.file + 1
C30_RerunStep ==
    migrate'.rerun =>
        /\ migrate'.pc # "failed"
        /\ C30_FileCommitted => migrate.db = migrate.begin
C30_Rerunnable == []C30_Ascending /\ [][C30_RerunStep]_vars

====
